---- MODULE Spec2Model ----
(***************************************************************************)
(* Banking accounts feature of ng-invoice-demo: the NgRx store slice       *)
(* (account.reducer.ts), the effects that bridge request actions to the    *)
(* HTTP gateway (account.effects.ts, account.service.ts) and the JSON      *)
(* server the gateway talks to.                                            *)
(*                                                                         *)
(* Conventions.  A nullable value (T | null, an optional field) is the     *)
(* empty sequence None for null/undefined and the one-element sequence     *)
(* Some(x) otherwise.  A display string built from a template literal is   *)
(* the sequence of its parts, so that two messages are equal exactly when  *)
(* the strings are.  Dates are integers (clock readings); on the wire a    *)
(* date is the record [iso |-> t], never a bare integer.  Account fields   *)
(* that no modelled code reads (holder name, email, phone) are left out.   *)
(***************************************************************************)
EXTENDS Integers, Sequences, FiniteSets, TLC

\* ------------------------------------------------------------------------
\* Bounds of the model
\* ------------------------------------------------------------------------

\* largest account id the JSON server hands out
MaxId == 2

\* number of actions the user interface dispatches in one run
MaxDispatch == 2

\* largest reading of the wall clock
MaxClock == 1

\* number of requests dispatched to the one effect stream of StreamSpec
MaxStream == 3

\* latest reading of the wall clock, in minutes, in RefreshSpec
MaxMinutes == 6

\* the longest URL, in path segments
MaxSegments == 3

\* longest account list given to the reducer in ReducerSpec
MaxAccounts == 2

\* ------------------------------------------------------------------------
\* account.model.ts
\* ------------------------------------------------------------------------

None == << >>

Some(x) == << x >>

IsNull(o) == o = None

Val(o) == o[1]

AccountType == {"SAVINGS", "CURRENT"}

AccountStatus == {"ACTIVE", "CLOSED", "SUSPENDED"}

\* ACCOUNT_RULES; INTEREST_RATE 4.5 is kept in tenths of a percent
ACCOUNT_RULES ==
  [SAVINGS |-> [MIN_BALANCE |-> 1000, LOW_BALANCE_THRESHOLD |-> 2000,
                WITHDRAWAL_LIMIT |-> 50000, INTEREST_RATE |-> 45,
                INITIAL_DEPOSIT_MIN |-> 1000],
   CURRENT |-> [MIN_BALANCE |-> 5000, LOW_BALANCE_THRESHOLD |-> 7000,
                OVERDRAFT_LIMIT |-> 10000, MONTHLY_SERVICE_CHARGE |-> 500,
                INITIAL_DEPOSIT_MIN |-> 5000]]

\* ------------------------------------------------------------------------
\* Sequence helpers (Array.prototype.some / find / filter / map)
\* ------------------------------------------------------------------------

IdsOf(accs) == {accs[i].id : i \in 1..Len(accs)}

\* accounts.some(a => a.id === id)
SomeId(accs, id) == \E i \in 1..Len(accs) : accs[i].id = id

\* accounts.find(a => a.id === id), undefined as None
FindById(accs, id) ==
  IF SomeId(accs, id)
  THEN Some(accs[CHOOSE i \in 1..Len(accs) :
                   /\ accs[i].id = id
                   /\ \A j \in 1..(i - 1) : accs[j].id # id])
  ELSE None

\* FilterOutId that removes the first match alone (indexOf and splice)
RECURSIVE FilterOutId_firstOnly(_, _)
FilterOutId_firstOnly(accs, id) ==
  IF accs = << >> THEN << >>
  ELSE IF Head(accs).id = id THEN Tail(accs)
       ELSE << Head(accs) >> \o FilterOutId_firstOnly(Tail(accs), id)

\* accounts.filter(account => account.id !== id)
RECURSIVE FilterOutId(_, _)
FilterOutId(accs, id) ==
  IF accs = << >> THEN << >>
  ELSE IF Head(accs).id = id THEN FilterOutId(Tail(accs), id)
       ELSE << Head(accs) >> \o FilterOutId(Tail(accs), id)

\* selectSelectedAccount
selectSelectedAccount(s) == s.selectedAccount

\* ------------------------------------------------------------------------
\* account.state.ts
\* ------------------------------------------------------------------------

initialAccountState ==
  [accounts |-> << >>,
   selectedAccount |-> None,
   selectedAccountId |-> None,
   loading |-> FALSE,
   error |-> None,
   lastUpdated |-> None,
   initialized |-> FALSE]

\* ------------------------------------------------------------------------
\* account.reducer.ts: accountReducer(state, action); t is the value read
\* by new Date() during the transition
\* ------------------------------------------------------------------------

\* RequestStarted that empties the collection while the request runs
RequestStarted_clearsData(s) ==
  [s EXCEPT !.loading = TRUE, !.error = None, !.accounts = << >>]

\* RequestStarted that leaves the error of the last failure in place
RequestStarted_keepsError(s) == [s EXCEPT !.loading = TRUE]

RequestStarted(s) == [s EXCEPT !.loading = TRUE, !.error = None]

\* RequestFailed with the loading flag left as the request set it
RequestFailed_keepsLoading(s, a) == [s EXCEPT !.error = Some(a.error)]

\* RequestFailed that falls back to the initial state's data
RequestFailed_resetsData(s, a) ==
  [initialAccountState EXCEPT !.error = Some(a.error)]

RequestFailed(s, a) == [s EXCEPT !.loading = FALSE, !.error = Some(a.error)]

\* OnLoadAccountsSuccess that drops the selection with the old collection
OnLoadAccountsSuccess_clearsSelection(s, a, t) ==
  [s EXCEPT !.accounts = a.accounts,
            !.selectedAccount = None,
            !.selectedAccountId = None,
            !.loading = FALSE,
            !.error = None,
            !.initialized = TRUE,
            !.lastUpdated = Some(t)]

\* OnLoadAccountsSuccess that writes no timestamp
OnLoadAccountsSuccess_noTimestamp(s, a, t) ==
  [s EXCEPT !.accounts = a.accounts,
            !.loading = FALSE,
            !.error = None,
            !.initialized = TRUE]

OnLoadAccountsSuccess(s, a, t) ==
  [s EXCEPT !.accounts = a.accounts,
            !.loading = FALSE,
            !.error = None,
            !.initialized = TRUE,
            !.lastUpdated = Some(t)]

\* OnLoadAccountSuccess that appends without looking for the id
OnLoadAccountSuccess_alwaysAppends(s, a, t) ==
  [s EXCEPT !.accounts = Append(s.accounts, a.account),
            !.selectedAccount = Some(a.account),
            !.selectedAccountId = Some(a.account.id),
            !.loading = FALSE,
            !.error = None,
            !.lastUpdated = Some(t)]

OnLoadAccountSuccess(s, a, t) ==
  LET accountExists == SomeId(s.accounts, a.account.id)
      updatedAccounts ==
        IF accountExists
        THEN [i \in 1..Len(s.accounts) |->
                IF s.accounts[i].id = a.account.id THEN a.account
                ELSE s.accounts[i]]
        ELSE Append(s.accounts, a.account)
  IN [s EXCEPT !.accounts = updatedAccounts,
               !.selectedAccount = Some(a.account),
               !.selectedAccountId = Some(a.account.id),
               !.loading = FALSE,
               !.error = None,
               !.lastUpdated = Some(t)]

\* OnCreateAccountSuccess that leaves the busy state as it was
OnCreateAccountSuccess_keepsLoading(s, a, t) ==
  [s EXCEPT !.accounts = Append(s.accounts, a.response.account),
            !.error = None,
            !.lastUpdated = Some(t)]

OnCreateAccountSuccess(s, a, t) ==
  [s EXCEPT !.accounts = Append(s.accounts, a.response.account),
            !.loading = FALSE,
            !.error = None,
            !.lastUpdated = Some(t)]

\* OnDeleteAccountSuccess that clears selectedAccountId alone
OnDeleteAccountSuccess_keepsSelectedAccount(s, a, t) ==
  LET updatedAccounts == FilterOutId(s.accounts, a.accountId)
      selectedAccountCleared == s.selectedAccountId = Some(a.accountId)
  IN [s EXCEPT !.accounts = updatedAccounts,
               !.selectedAccountId =
                  IF selectedAccountCleared THEN None ELSE s.selectedAccountId,
               !.loading = FALSE,
               !.error = None,
               !.lastUpdated = Some(t)]

OnDeleteAccountSuccess(s, a, t) ==
  LET updatedAccounts == FilterOutId(s.accounts, a.accountId)
      selectedAccountCleared == s.selectedAccountId = Some(a.accountId)
  IN [s EXCEPT !.accounts = updatedAccounts,
               !.selectedAccount =
                  IF selectedAccountCleared THEN None ELSE s.selectedAccount,
               !.selectedAccountId =
                  IF selectedAccountCleared THEN None ELSE s.selectedAccountId,
               !.loading = FALSE,
               !.error = None,
               !.lastUpdated = Some(t)]

\* OnCheckBalanceSuccess that leaves the selection as it was
OnCheckBalanceSuccess_collectionOnly(s, a, t) ==
  [s EXCEPT !.accounts =
              [i \in 1..Len(s.accounts) |->
                 IF s.accounts[i].id = a.response.accountId
                 THEN [s.accounts[i] EXCEPT
                         !.balance = a.response.currentBalance,
                         !.lastModifiedDate = t]
                 ELSE s.accounts[i]],
            !.loading = FALSE,
            !.error = None,
            !.lastUpdated = Some(t)]

OnCheckBalanceSuccess(s, a, t) ==
  LET updatedAccounts ==
        [i \in 1..Len(s.accounts) |->
           IF s.accounts[i].id = a.response.accountId
           THEN [s.accounts[i] EXCEPT !.balance = a.response.currentBalance,
                                      !.lastModifiedDate = t]
           ELSE s.accounts[i]]
      updatedSelectedAccount ==
        IF /\ ~IsNull(s.selectedAccount)
           /\ Val(s.selectedAccount).id = a.response.accountId
        THEN Some([Val(s.selectedAccount) EXCEPT
                     !.balance = a.response.currentBalance,
                     !.lastModifiedDate = t])
        ELSE s.selectedAccount
  IN [s EXCEPT !.accounts = updatedAccounts,
               !.selectedAccount = updatedSelectedAccount,
               !.loading = FALSE,
               !.error = None,
               !.lastUpdated = Some(t)]

\* OnSelectAccount that records the id and leaves selectedAccount
OnSelectAccount_idOnly(s, a) == [s EXCEPT !.selectedAccountId = a.accountId]

\* OnSelectAccount that clears the whole selection when no account matches
OnSelectAccount_clearsOnMiss(s, a) ==
  IF IsNull(a.accountId) \/ ~SomeId(s.accounts, Val(a.accountId))
  THEN [s EXCEPT !.selectedAccount = None, !.selectedAccountId = None]
  ELSE [s EXCEPT !.selectedAccount = FindById(s.accounts, Val(a.accountId)),
                 !.selectedAccountId = a.accountId]

\* the payload accountId is None for null
OnSelectAccount(s, a) ==
  IF IsNull(a.accountId)
  THEN [s EXCEPT !.selectedAccount = None, !.selectedAccountId = None]
  ELSE [s EXCEPT !.selectedAccount = FindById(s.accounts, Val(a.accountId)),
                 !.selectedAccountId = a.accountId]

\* OnClearError that also ends the busy state
OnClearError_resetsLoading(s) == [s EXCEPT !.error = None, !.loading = FALSE]

OnClearError(s) == [s EXCEPT !.error = None]

RequestTypes ==
  {"loadAccounts", "loadAccount", "createAccount", "deleteAccount",
   "checkBalance"}

FailureTypes ==
  {"loadAccountsFailure", "loadAccountFailure", "createAccountFailure",
   "deleteAccountFailure", "checkBalanceFailure"}

SuccessTypes ==
  {"loadAccountsSuccess", "loadAccountSuccess", "createAccountSuccess",
   "deleteAccountSuccess", "checkBalanceSuccess"}

accountReducer(s, a, t) ==
  CASE a.type \in RequestTypes -> RequestStarted(s)
    [] a.type \in FailureTypes -> RequestFailed(s, a)
    [] a.type = "loadAccountsSuccess" -> OnLoadAccountsSuccess(s, a, t)
    [] a.type = "loadAccountSuccess" -> OnLoadAccountSuccess(s, a, t)
    [] a.type = "createAccountSuccess" -> OnCreateAccountSuccess(s, a, t)
    [] a.type = "deleteAccountSuccess" -> OnDeleteAccountSuccess(s, a, t)
    [] a.type = "checkBalanceSuccess" -> OnCheckBalanceSuccess(s, a, t)
    [] a.type = "selectAccount" -> OnSelectAccount(s, a)
    [] a.type = "clearError" -> OnClearError(s)
    [] OTHER -> s

\* ------------------------------------------------------------------------
\* account.service.ts: the request gateway
\* ------------------------------------------------------------------------

\* JSON.stringify of a Date, and new Date(string) of transformAccountDate
DateToJson(t) == [iso |-> t]

ParseDate(j) == j.iso

transformAccountDate(j) ==
  [j EXCEPT !.createdDate = ParseDate(j.createdDate),
            !.lastModifiedDate = ParseDate(j.lastModifiedDate)]

transformAccountDates(js) == [i \in 1..Len(js) |-> transformAccountDate(js[i])]

\* generateAccountNumber: "ACC" followed by nine random digits (one draw)
AccountNumbers == {"ACC999999999"}

\* NewAccountPayload that gives every account the overdraft limit
NewAccountPayload_overdraftForAll(request, accountNumber, t) ==
  [accountNumber |-> accountNumber,
   accountType |-> request.accountType,
   balance |-> request.initialDeposit,
   minBalance |-> IF request.accountType = "SAVINGS"
                  THEN ACCOUNT_RULES.SAVINGS.MIN_BALANCE
                  ELSE ACCOUNT_RULES.CURRENT.MIN_BALANCE,
   status |-> "ACTIVE",
   createdDate |-> DateToJson(t),
   lastModifiedDate |-> DateToJson(t),
   monthlyServiceCharge |-> IF request.accountType = "CURRENT"
                            THEN ACCOUNT_RULES.CURRENT.MONTHLY_SERVICE_CHARGE
                            ELSE 0,
   interestRate |-> IF request.accountType = "SAVINGS"
                    THEN ACCOUNT_RULES.SAVINGS.INTEREST_RATE
                    ELSE 0,
   overdraftLimit |-> Some(ACCOUNT_RULES.CURRENT.OVERDRAFT_LIMIT)]

\* NewAccountPayload that gives every account the SAVINGS minimum balance
NewAccountPayload_savingsMinimum(request, accountNumber, t) ==
  [accountNumber |-> accountNumber,
   accountType |-> request.accountType,
   balance |-> request.initialDeposit,
   minBalance |-> ACCOUNT_RULES.SAVINGS.MIN_BALANCE,
   status |-> "ACTIVE",
   createdDate |-> DateToJson(t),
   lastModifiedDate |-> DateToJson(t),
   monthlyServiceCharge |-> IF request.accountType = "CURRENT"
                            THEN ACCOUNT_RULES.CURRENT.MONTHLY_SERVICE_CHARGE
                            ELSE 0,
   interestRate |-> IF request.accountType = "SAVINGS"
                    THEN ACCOUNT_RULES.SAVINGS.INTEREST_RATE
                    ELSE 0,
   overdraftLimit |-> IF request.accountType = "CURRENT"
                      THEN Some(ACCOUNT_RULES.CURRENT.OVERDRAFT_LIMIT)
                      ELSE None]

\* the body createAccount posts (newAccount, serialised), built at time t
NewAccountPayload(request, accountNumber, t) ==
  [accountNumber |-> accountNumber,
   accountType |-> request.accountType,
   balance |-> request.initialDeposit,
   minBalance |-> IF request.accountType = "SAVINGS"
                  THEN ACCOUNT_RULES.SAVINGS.MIN_BALANCE
                  ELSE ACCOUNT_RULES.CURRENT.MIN_BALANCE,
   status |-> "ACTIVE",
   createdDate |-> DateToJson(t),
   lastModifiedDate |-> DateToJson(t),
   monthlyServiceCharge |-> IF request.accountType = "CURRENT"
                            THEN ACCOUNT_RULES.CURRENT.MONTHLY_SERVICE_CHARGE
                            ELSE 0,
   interestRate |-> IF request.accountType = "SAVINGS"
                    THEN ACCOUNT_RULES.SAVINGS.INTEREST_RATE
                    ELSE 0,
   overdraftLimit |-> IF request.accountType = "CURRENT"
                      THEN Some(ACCOUNT_RULES.CURRENT.OVERDRAFT_LIMIT)
                      ELSE None]

\* account.overdraftLimit as a condition: undefined and 0 are falsy
Truthy(o) == ~IsNull(o) /\ Val(o) # 0

\* BalanceCheck that measures low balance on the available balance
BalanceCheck_lowOnAvailable(account) ==
  LET threshold == IF account.accountType = "SAVINGS"
                   THEN ACCOUNT_RULES.SAVINGS.LOW_BALANCE_THRESHOLD
                   ELSE ACCOUNT_RULES.CURRENT.LOW_BALANCE_THRESHOLD
      availableBalance ==
        IF account.accountType = "CURRENT" /\ Truthy(account.overdraftLimit)
        THEN account.balance + Val(account.overdraftLimit)
        ELSE account.balance
  IN [accountId |-> account.id,
      accountNumber |-> account.accountNumber,
      currentBalance |-> account.balance,
      availableBalance |-> availableBalance,
      isLowBalance |-> availableBalance < threshold,
      minBalanceRequired |-> account.minBalance]

\* BalanceCheck that counts a balance equal to the threshold as low
BalanceCheck_lowAtThreshold(account) ==
  LET threshold == IF account.accountType = "SAVINGS"
                   THEN ACCOUNT_RULES.SAVINGS.LOW_BALANCE_THRESHOLD
                   ELSE ACCOUNT_RULES.CURRENT.LOW_BALANCE_THRESHOLD
      availableBalance ==
        IF account.accountType = "CURRENT" /\ Truthy(account.overdraftLimit)
        THEN account.balance + Val(account.overdraftLimit)
        ELSE account.balance
  IN [accountId |-> account.id,
      accountNumber |-> account.accountNumber,
      currentBalance |-> account.balance,
      availableBalance |-> availableBalance,
      isLowBalance |-> account.balance <= threshold,
      minBalanceRequired |-> account.minBalance]

\* BalanceCheck that leaves the overdraft out of the available balance
BalanceCheck_noOverdraft(account) ==
  LET threshold == IF account.accountType = "SAVINGS"
                   THEN ACCOUNT_RULES.SAVINGS.LOW_BALANCE_THRESHOLD
                   ELSE ACCOUNT_RULES.CURRENT.LOW_BALANCE_THRESHOLD
  IN [accountId |-> account.id,
      accountNumber |-> account.accountNumber,
      currentBalance |-> account.balance,
      availableBalance |-> account.balance,
      isLowBalance |-> account.balance < threshold,
      minBalanceRequired |-> account.minBalance]

\* the map of checkBalance, applied to the account the server returned
BalanceCheck(account) ==
  LET threshold == IF account.accountType = "SAVINGS"
                   THEN ACCOUNT_RULES.SAVINGS.LOW_BALANCE_THRESHOLD
                   ELSE ACCOUNT_RULES.CURRENT.LOW_BALANCE_THRESHOLD
      availableBalance ==
        IF account.accountType = "CURRENT" /\ Truthy(account.overdraftLimit)
        THEN account.balance + Val(account.overdraftLimit)
        ELSE account.balance
  IN [accountId |-> account.id,
      accountNumber |-> account.accountNumber,
      currentBalance |-> account.balance,
      availableBalance |-> availableBalance,
      isLowBalance |-> account.balance < threshold,
      minBalanceRequired |-> account.minBalance]

\* HttpErrorResponse: status, statusText and, for a client-side ErrorEvent,
\* its message in errorEvent
HttpError(status, statusText) ==
  [status |-> status, statusText |-> statusText, errorEvent |-> None]

StatusText(status) ==
  CASE status = 0 -> "Unknown Error"
    [] status = 400 -> "Bad Request"
    [] status = 401 -> "Unauthorized"
    [] status = 403 -> "Forbidden"
    [] status = 404 -> "Not Found"
    [] status = 409 -> "Conflict"
    [] status = 422 -> "Unprocessable Entity"
    [] status = 500 -> "Internal Server Error"
    [] OTHER -> "Service Unavailable"

\* handleError: the message of the Error it throws
handleError(error) ==
  IF ~IsNull(error.errorEvent)
  THEN << "Client Error: " >> \o Val(error.errorEvent)
  ELSE CASE error.status = 0 ->
              << "Unable to connect to the server. Please ensure JSON Server is running on http://localhost:3000" >>
         [] error.status = 400 ->
              << "Invalid request. Please check your input." >>
         [] error.status = 404 -> << "Account not found." >>
         [] error.status = 500 ->
              << "Server error. Please try again later." >>
         [] OTHER ->
              << "Server Error: ", error.status, " - ", error.statusText >>

\* new Error(message): no structured error field, a message
ErrorObject(message) ==
  [error |-> None, message |-> Some(message), isString |-> FALSE]

\* a string is truthy when it is not empty
NonEmpty(o) == ~IsNull(o) /\ Val(o) # << >>

\* ------------------------------------------------------------------------
\* Derived views (account.state.ts helpers, account.model.ts selectors)
\* ------------------------------------------------------------------------

\* getAvailableBalance
getAvailableBalance(account) ==
  IF account.accountType = "CURRENT" /\ Truthy(account.overdraftLimit)
  THEN account.balance + Val(account.overdraftLimit)
  ELSE account.balance

\* the three fields selectAccountsWithStatus and selectSelectedAccountWithInfo
\* add to an account
WithInfo(account) ==
  [isLowBalance |->
     account.balance < (IF account.accountType = "SAVINGS" THEN 2000 ELSE 7000),
   canTransact |-> account.status = "ACTIVE",
   availableBalance |->
     IF account.accountType = "CURRENT" /\ Truthy(account.overdraftLimit)
     THEN account.balance + Val(account.overdraftLimit)
     ELSE account.balance] @@ account

selectAccountsWithStatus(s) ==
  [i \in 1..Len(s.accounts) |-> WithInfo(s.accounts[i])]

selectSelectedAccountWithInfo(s) ==
  IF IsNull(selectSelectedAccount(s)) THEN None
  ELSE Some(WithInfo(Val(selectSelectedAccount(s))))

\* accounts.filter(account => account.status === AccountStatus.ACTIVE)
ActiveOf(accounts) ==
  SelectSeq(accounts, LAMBDA account : account.status = "ACTIVE")

selectActiveAccounts(s) == ActiveOf(s.accounts)

getActiveAccounts(s) == ActiveOf(s.accounts)

\* accounts.reduce((total, account) => total + account.balance, 0)
RECURSIVE SumBalance(_)
SumBalance(accounts) ==
  IF accounts = << >> THEN 0
  ELSE Head(accounts).balance + SumBalance(Tail(accounts))

\* accounts.reduce((total, account) => total + available, 0)
RECURSIVE SumAvailable(_)
SumAvailable(accounts) ==
  IF accounts = << >> THEN 0
  ELSE (IF Head(accounts).accountType = "CURRENT"
          /\ Truthy(Head(accounts).overdraftLimit)
        THEN Head(accounts).balance + Val(Head(accounts).overdraftLimit)
        ELSE Head(accounts).balance)
       + SumAvailable(Tail(accounts))

\* selectTotalBalance that sums the accounts of every status
selectTotalBalance_everyStatus(s) == SumBalance(s.accounts)

selectTotalBalance(s) == SumBalance(selectActiveAccounts(s))

selectTotalAvailableBalance(s) == SumAvailable(selectActiveAccounts(s))

calculateTotalBalance(s) == SumBalance(getActiveAccounts(s))

calculateTotalAvailableBalance(s) == SumAvailable(getActiveAccounts(s))

\* the filter of selectLowBalanceAccounts and getLowBalanceAccounts
BelowThreshold(accounts) ==
  SelectSeq(accounts,
            LAMBDA account :
              account.balance
                < (IF account.accountType = "SAVINGS" THEN 2000 ELSE 7000))

selectLowBalanceAccounts(s) == BelowThreshold(selectActiveAccounts(s))

getLowBalanceAccounts(s) == BelowThreshold(getActiveAccounts(s))

hasLowBalance(account) ==
  LET threshold == IF account.accountType = "SAVINGS" THEN 2000 ELSE 7000
  IN account.balance < threshold /\ account.status = "ACTIVE"

selectIsOperationInProgress(s) == s.loading

selectHasError(s) == ~IsNull(s.error)

selectIsDataReady(s) == s.initialized /\ ~s.loading

\* FIVE_MINUTES = 5 * 60 * 1000 ms; the clock of the model counts minutes
FIVE_MINUTES == 5

\* the projector of selectNeedsRefresh and the body of needsRefresh, run
\* when new Date() reads t
NeedsRefreshAt(lastUpdated, t) ==
  IF IsNull(lastUpdated) THEN TRUE
  ELSE t - Val(lastUpdated) > FIVE_MINUTES

\* needsRefresh(state), called at t
needsRefresh(s, t) == NeedsRefreshAt(s.lastUpdated, t)

\* selectNeedsRefresh, read at t.  createSelector runs the projector again
\* only when selectLastUpdated returns another value, so the result in
\* force at t is the one the projector computed at its first run since
\* lastUpdated was written: at some instant between that write and t.
selectNeedsRefresh(s, t) ==
  IF IsNull(s.lastUpdated) THEN {NeedsRefreshAt(s.lastUpdated, t)}
  ELSE {NeedsRefreshAt(s.lastUpdated, computed) :
          computed \in Val(s.lastUpdated)..t}

\* ------------------------------------------------------------------------
\* account.effects.ts
\* ------------------------------------------------------------------------

\* extractErrorMessage that looks at error.error.message alone
extractErrorMessage_bodyOnly(e) ==
  IF ~e.isString /\ ~IsNull(e.error) /\ NonEmpty(Val(e.error).message)
  THEN Val(Val(e.error).message)
  ELSE << "An unexpected error occurred. Please try again." >>

\* extractErrorMessage that skips error.message: error.error.message, then
\* the error itself when it is a string, then the literal
extractErrorMessage_skipsMessage(e) ==
  IF ~e.isString /\ ~IsNull(e.error) /\ NonEmpty(Val(e.error).message)
  THEN Val(Val(e.error).message)
  ELSE IF e.isString
  THEN Val(e.message)
  ELSE << "An unexpected error occurred. Please try again." >>

\* extractErrorMessage: error.error.message, then error.message, then the
\* error itself when it is a string (kept in message), then the literal
extractErrorMessage(e) ==
  IF ~e.isString /\ ~IsNull(e.error) /\ NonEmpty(Val(e.error).message)
  THEN Val(Val(e.error).message)
  ELSE IF ~e.isString /\ NonEmpty(e.message)
  THEN Val(e.message)
  ELSE IF e.isString
  THEN Val(e.message)
  ELSE << "An unexpected error occurred. Please try again." >>

Toast(level, title, message) ==
  [level |-> level, title |-> title, message |-> message]

\* Which flattening operator each effect pipes its request actions through:
\* loadAccounts$ and loadAccount$ use exhaustMap, createAccount$,
\* deleteAccount$ and checkBalance$ use switchMap.
EffectOperator(k) ==
  IF k \in {"loadAccounts", "loadAccount"} THEN "exhaustMap" ELSE "switchMap"

\* the title of the error notification of each effect
ErrorTitle(k) ==
  CASE k = "loadAccounts" -> "Failed to load accounts"
    [] k = "loadAccount" -> "Failed to load account"
    [] k = "createAccount" -> "Account Creation Failed"
    [] k = "deleteAccount" -> "Failed to close account"
    [] k = "checkBalance" -> "Balance Check Failed"

FailureType(k) ==
  CASE k = "loadAccounts" -> "loadAccountsFailure"
    [] k = "loadAccount" -> "loadAccountFailure"
    [] k = "createAccount" -> "createAccountFailure"
    [] k = "deleteAccount" -> "deleteAccountFailure"
    [] k = "checkBalance" -> "checkBalanceFailure"

\* The inner pipe of the gateway for a response that has arrived: map on
\* success, catchError(handleError) on failure.  res is the transport
\* result, t the clock reading.
ServicePipe(k, res, t) ==
  IF ~res.ok
  THEN [ok |-> FALSE, error |-> ErrorObject(handleError(res.err))]
  ELSE CASE k = "loadAccounts" ->
              [ok |-> TRUE, value |-> transformAccountDates(res.body)]
         [] k = "loadAccount" ->
              [ok |-> TRUE, value |-> transformAccountDate(res.body[1])]
         [] k = "createAccount" ->
              [ok |-> TRUE,
               value |-> [success |-> TRUE,
                          message |-> << "Account ", res.body[1].accountNumber,
                                         " created successfully!" >>,
                          account |-> transformAccountDate(res.body[1])]]
         [] k = "deleteAccount" ->
              [ok |-> TRUE,
               value |-> [success |-> TRUE,
                          message |-> << "Account closed successfully" >>,
                          closedDate |-> t]]
         [] k = "checkBalance" ->
              [ok |-> TRUE, value |-> BalanceCheck(res.body[1])]

\* catchError of an effect: one error notification, then the paired Failure
\* action is returned, both carrying extractErrorMessage(error).  order is
\* the callback's statements in turn: "notify" for a toastr call, "emit"
\* for the action it returns to the store.
EffectFailure(k, error) ==
  LET errorMessage == extractErrorMessage(error)
  IN [order |-> << "notify", "emit" >>,
      toasts |-> << Toast("error", ErrorTitle(k), errorMessage) >>,
      actions |-> << [type |-> FailureType(k), error |-> errorMessage] >>]

\* EffectSuccess whose low-balance warning is raised in a tap after the map,
\* once checkBalanceSuccess has been emitted
EffectSuccess_warnsAfterEmit(k, req, value) ==
  CASE k = "loadAccounts" ->
         [order |-> << "emit" >>,
          toasts |-> << >>,
          actions |-> << [type |-> "loadAccountsSuccess",
                          accounts |-> value] >>]
    [] k = "loadAccount" ->
         [order |-> << "emit" >>,
          toasts |-> << >>,
          actions |-> << [type |-> "loadAccountSuccess",
                          account |-> value] >>]
    [] k = "createAccount" ->
         [order |-> << "notify", "emit" >>,
          toasts |-> << Toast("success", "Account Created",
                              << "Account ", value.account.accountNumber,
                                 " created successfully!" >>) >>,
          actions |-> << [type |-> "createAccountSuccess",
                          response |-> value] >>]
    [] k = "deleteAccount" ->
         [order |-> << "notify", "emit" >>,
          toasts |-> << Toast("success", "Account Closed",
                              << "Account closed successfully" >>) >>,
          actions |-> << [type |-> "deleteAccountSuccess",
                          accountId |-> req.accountId,
                          response |-> value] >>]
    [] k = "checkBalance" ->
         [order |-> IF value.isLowBalance THEN << "emit", "notify" >>
                    ELSE << "emit" >>,
          toasts |-> IF value.isLowBalance
                     THEN << Toast("warning", "Low Balance Alert",
                                   << "Your balance (Rs", value.currentBalance,
                                      ".00) is below the minimum required (Rs",
                                      value.minBalanceRequired, ".00)" >>) >>
                     ELSE << >>,
          actions |-> << [type |-> "checkBalanceSuccess",
                          response |-> value] >>]

\* map of an effect: the notifications its body raises, the paired Success
\* action it returns, and in order the callback's statements in turn (the
\* toastr call precedes the return).  The rupee sign and toFixed(2) of the
\* low-balance text are written "Rs" and a ".00" part.
EffectSuccess(k, req, value) ==
  CASE k = "loadAccounts" ->
         [order |-> << "emit" >>,
          toasts |-> << >>,
          actions |-> << [type |-> "loadAccountsSuccess",
                          accounts |-> value] >>]
    [] k = "loadAccount" ->
         [order |-> << "emit" >>,
          toasts |-> << >>,
          actions |-> << [type |-> "loadAccountSuccess",
                          account |-> value] >>]
    [] k = "createAccount" ->
         [order |-> << "notify", "emit" >>,
          toasts |-> << Toast("success", "Account Created",
                              << "Account ", value.account.accountNumber,
                                 " created successfully!" >>) >>,
          actions |-> << [type |-> "createAccountSuccess",
                          response |-> value] >>]
    [] k = "deleteAccount" ->
         [order |-> << "notify", "emit" >>,
          toasts |-> << Toast("success", "Account Closed",
                              << "Account closed successfully" >>) >>,
          actions |-> << [type |-> "deleteAccountSuccess",
                          accountId |-> req.accountId,
                          response |-> value] >>]
    [] k = "checkBalance" ->
         [order |-> IF value.isLowBalance THEN << "notify", "emit" >>
                    ELSE << "emit" >>,
          toasts |-> IF value.isLowBalance
                     THEN << Toast("warning", "Low Balance Alert",
                                   << "Your balance (Rs", value.currentBalance,
                                      ".00) is below the minimum required (Rs",
                                      value.minBalanceRequired, ".00)" >>) >>
                     ELSE << >>,
          actions |-> << [type |-> "checkBalanceSuccess",
                          response |-> value] >>]

\* what the inner observable of effect k emits for a transport result
EffectOutcome(k, req, res, t) ==
  LET r == ServicePipe(k, res, t)
  IN IF r.ok THEN EffectSuccess(k, req, r.value)
     ELSE EffectFailure(k, r.error)

\* TimersScheduledBy of a navigation that listens to every outcome of
\* createAccount$
TimersScheduledBy_onFailureToo(actions) ==
  Cardinality({i \in 1..Len(actions) :
                 actions[i].type \in {"createAccountSuccess",
                                      "createAccountFailure"}})

\* createAccountSuccess$: one navigation timer per createAccountSuccess
TimersScheduledBy(actions) ==
  Cardinality({i \in 1..Len(actions) : actions[i].type = "createAccountSuccess"})

\* the store applies a sequence of actions in order
RECURSIVE ReduceAll(_, _, _)
ReduceAll(s, actions, t) ==
  IF actions = << >> THEN s
  ELSE ReduceAll(accountReducer(s, Head(actions), t), Tail(actions), t)

\* ------------------------------------------------------------------------
\* The JSON server behind the gateway (json-server over db.json)
\* ------------------------------------------------------------------------

Ids == 1..MaxId

\* the status with which the server may fail any request
TransportFailures == {500}

StoredIds(srv) == {i \in Ids : ~IsNull(srv[i])}

\* GET /accounts: the stored accounts, in id order
RECURSIVE ListFrom(_, _)
ListFrom(srv, i) ==
  IF i > MaxId THEN << >>
  ELSE (IF IsNull(srv[i]) THEN << >> ELSE << Val(srv[i]) >>)
       \o ListFrom(srv, i + 1)

GetAll(srv) == ListFrom(srv, 1)

\* the id json-server gives the next POSTed record
NextId(srv) ==
  IF StoredIds(srv) = {} THEN 1
  ELSE 1 + (CHOOSE m \in StoredIds(srv) : \A i \in StoredIds(srv) : i <= m)

Fail(status) == [ok |-> FALSE, err |-> HttpError(status, StatusText(status))]

\* a successful response; body is the list of JSON records it carries (one
\* record for every request but GET /accounts)
Ok(body) == [ok |-> TRUE, body |-> body]

\* the record POST /accounts stores: the body plus the assigned id
Stored(body, id) ==
  [id |-> id,
   accountNumber |-> body.accountNumber,
   accountType |-> body.accountType,
   balance |-> body.balance,
   minBalance |-> body.minBalance,
   status |-> body.status,
   createdDate |-> body.createdDate,
   lastModifiedDate |-> body.lastModifiedDate,
   monthlyServiceCharge |-> body.monthlyServiceCharge,
   interestRate |-> body.interestRate,
   overdraftLimit |-> body.overdraftLimit]

\* json-server holds no record under the id (NaN among them)
Missing(srv, id) == IF id \in Ids THEN IsNull(srv[id]) ELSE TRUE

\* The ways the server can answer request req of kind k in state srv: each
\* is the transport result and the server state it leaves.
ServerResponses(k, req, srv) ==
  LET failures == {[res |-> Fail(st), server |-> srv] : st \in TransportFailures}
      missing == {[res |-> Fail(404), server |-> srv]}
  IN failures \cup
     CASE k = "loadAccounts" -> {[res |-> Ok(GetAll(srv)), server |-> srv]}
       [] k \in {"loadAccount", "checkBalance"} ->
            IF Missing(srv, req.accountId) THEN missing
            ELSE {[res |-> Ok(<< Val(srv[req.accountId]) >>), server |-> srv]}
       [] k = "createAccount" ->
            IF NextId(srv) > MaxId THEN {}
            ELSE LET rec == Stored(req.body, NextId(srv))
                 IN {[res |-> Ok(<< rec >>),
                      server |-> [srv EXCEPT ![NextId(srv)] = Some(rec)]]}
       [] k = "deleteAccount" ->
            IF Missing(srv, req.accountId) THEN missing
            ELSE LET rec == [Val(srv[req.accountId]) EXCEPT
                               !.status = req.updates.status,
                               !.lastModifiedDate = req.updates.lastModifiedDate]
                 IN {[res |-> Ok(<< rec >>),
                      server |-> [srv EXCEPT ![req.accountId] = Some(rec)]]}

\* db.json at start: one SAVINGS account below its low-balance threshold
InitialServer ==
  [i \in Ids |->
     IF i = 1
     THEN Some(Stored(NewAccountPayload([accountType |-> "SAVINGS",
                                         initialDeposit |-> 1500],
                                        "ACC100000000", 0), 1))
     ELSE None]

\* ------------------------------------------------------------------------
\* State
\* ------------------------------------------------------------------------

VARIABLES
  state,       \* the AccountState held by the store
  server,      \* the accounts held by the JSON server, by id
  inflight,    \* per effect: the inner subscription it is attached to
  orphans,     \* HTTP requests whose subscriber was detached by switchMap
  emitted,     \* the actions the effects emitted in the last step
  toasts,      \* the notifications raised in the last step
  navTimers,   \* pending setTimeout navigations to /banking/accounts
  now,         \* the wall clock
  requested,   \* per action type: number of actions dispatched so far
  answered,    \* per kind: the requests (by number) that got their outcome
  handled,     \* the request whose response arrived in the last step
  lastResult,  \* per kind: how the last handled request ended
  router       \* the route the Router activated last, null before any navigation

vars ==
  << state, server, inflight, orphans, emitted, toasts, navTimers, now,
     requested, answered, handled, lastResult, router >>

Kinds == RequestTypes

Idle(k) == IsNull(inflight[k])

Slot(k) == Val(inflight[k])

RECURSIVE SumOver(_, _)
SumOver(f, S) ==
  IF S = {} THEN 0
  ELSE LET x == CHOOSE y \in S : TRUE IN f[x] + SumOver(f, S \ {x})

\* the actions the user interface dispatches
Dispatchable == Kinds \cup {"selectAccount", "clearError"}

TotalDispatched == SumOver(requested, Dispatchable)

Init ==
  /\ state = initialAccountState
  /\ server = InitialServer
  /\ inflight = [k \in Kinds |-> None]
  /\ orphans = {}
  /\ emitted = << >>
  /\ toasts = << >>
  /\ navTimers = 0
  /\ now = 0
  /\ requested = [k \in Dispatchable |-> 0]
  /\ answered = [k \in Kinds |-> {}]
  /\ handled = None
  /\ lastResult = [k \in Kinds |-> "none"]
  /\ router = None

\* ------------------------------------------------------------------------
\* Dispatch of a request action: the reducer runs first, then the effect
\* ------------------------------------------------------------------------

\* the requests the create form submits (type, deposit at or above the
\* type's minimum)
CreateRequests ==
  {[accountType |-> "SAVINGS", initialDeposit |-> 1500],
   [accountType |-> "CURRENT", initialDeposit |-> 8000]}

NewSlot(req, n) ==
  [req |-> req, seq |-> n, phase |-> "sent", attempt |-> 1, res |-> None]

\* Flatten of a stream that catchError on the outer pipe has completed: once
\* a request of kind k has failed, later requests are not subscribed to
Flatten_completedByFailure(k, cur, new) ==
  IF lastResult[k] = "failure" THEN [slot |-> cur, detached |-> {}]
  ELSE IF IsNull(cur) \/ EffectOperator(k) # "exhaustMap"
  THEN [slot |-> Some(new), detached |-> {}]
  ELSE [slot |-> cur, detached |-> {}]

\* exhaustMap ignores a request while its inner observable is active;
\* switchMap unsubscribes from the active inner observable and subscribes
\* to the new one.  The result is the slot after the request and the
\* detached subscription, if any.
Flatten(k, cur, new) ==
  IF IsNull(cur) THEN [slot |-> Some(new), detached |-> {}]
  ELSE IF EffectOperator(k) = "exhaustMap"
  THEN [slot |-> cur, detached |-> {}]
  ELSE [slot |-> Some(new),
        detached |-> {[kind |-> k, req |-> Val(cur).req, seq |-> Val(cur).seq,
                       phase |-> Val(cur).phase, res |-> Val(cur).res]}]

\* the instants at which the next event can happen
Clock == now..MaxClock

\* what a dispatch changes: the slice, the effects' subscriptions and the
\* count of actions dispatched
Store ==
  [state |-> state, inflight |-> inflight, orphans |-> orphans,
   requested |-> requested]

\* store.dispatch of the action of kind k at time t: the reducer runs, then
\* the effect of the kind flattens the request into its stream
Dispatched(store, k, req, t) ==
  LET n == store.requested[k] + 1
      f == Flatten(k, store.inflight[k], NewSlot(req, n))
  IN [state |-> accountReducer(store.state, [type |-> k, payload |-> req], t),
      inflight |-> [store.inflight EXCEPT ![k] = f.slot],
      orphans |-> store.orphans \cup f.detached,
      requested |-> [store.requested EXCEPT ![k] = n]]

\* the store after the dispatches of a step
Commit(store) ==
  /\ state' = store.state
  /\ inflight' = store.inflight
  /\ orphans' = store.orphans
  /\ requested' = store.requested

\* the action of kind k is dispatched at time t
DispatchRequest(k, req, t) ==
  /\ Commit(Dispatched(Store, k, req, t))
  /\ emitted' = << >>
  /\ toasts' = << >>
  /\ handled' = None
  /\ now' = t
  /\ UNCHANGED << router, server, navTimers, answered, lastResult >>

\* AccountListComponent.loadAccounts
LoadAccounts(t) == DispatchRequest("loadAccounts", [none |-> TRUE], t)

\* AccountDetailsComponent.ngOnInit
LoadAccount(id, t) == DispatchRequest("loadAccount", [accountId |-> id], t)

\* AccountCreateComponent.onSubmit; the gateway builds the POST body, with
\* the account number it generated, when the effect subscribes
CreateAccount(r, num, t) ==
  DispatchRequest("createAccount",
                  [request |-> r, body |-> NewAccountPayload(r, num, t)], t)

\* deleteAccount({ accountId }) and the updates closeAccount of the gateway
\* sends for it
CloseRequest(id, t) ==
  [accountId |-> id,
   updates |-> [status |-> "CLOSED", lastModifiedDate |-> DateToJson(t)]]

\* AccountListComponent.closeAccount, confirmed
DeleteAccount(id, t) ==
  DispatchRequest("deleteAccount", CloseRequest(id, t), t)

\* AccountDetailsComponent.refreshBalance
CheckBalance(id, t) ==
  DispatchRequest("checkBalance", [accountId |-> id], t)

DispatchLoadAccounts == \E t \in Clock : LoadAccounts(t)

DispatchLoadAccount == \E id \in Ids, t \in Clock : LoadAccount(id, t)

DispatchCreateAccount ==
  \E r \in CreateRequests, num \in AccountNumbers, t \in Clock :
    CreateAccount(r, num, t)

DispatchCheckBalance == \E id \in Ids, t \in Clock : CheckBalance(id, t)

\* an action no effect listens to: only the reducer runs
DispatchPlain(a, t) ==
  /\ state' = accountReducer(state, a, t)
  /\ requested' = [requested EXCEPT ![a.type] = @ + 1]
  /\ emitted' = << >>
  /\ toasts' = << >>
  /\ handled' = None
  /\ now' = t
  /\ UNCHANGED << router, server, inflight, orphans, navTimers, answered, lastResult >>

DispatchSelectAccount ==
  \E sel \in {None} \cup {Some(id) : id \in Ids}, t \in Clock :
    DispatchPlain([type |-> "selectAccount", accountId |-> sel], t)

DispatchClearError == \E t \in Clock : DispatchPlain([type |-> "clearError"], t)

\* ------------------------------------------------------------------------
\* The network and the server
\* ------------------------------------------------------------------------

\* Retries of a pipe without retry
Retries_never(k, slot, res) == FALSE

\* getAllAccounts pipes retry(1): its first failure resubscribes
Retries(k, slot, res) == k = "loadAccounts" /\ ~res.ok /\ slot.attempt = 1

\* the server answers the request effect k is subscribed to
ServerHandle(k) ==
  /\ ~Idle(k)
  /\ Slot(k).phase = "sent"
  /\ \E r \in ServerResponses(k, Slot(k).req, server) :
       /\ server' = r.server
       /\ inflight' =
            [inflight EXCEPT ![k] =
               IF Retries(k, Slot(k), r.res)
               THEN Some([Slot(k) EXCEPT !.attempt = 2])
               ELSE Some([Slot(k) EXCEPT !.phase = "responded",
                                         !.res = Some(r.res)])]
  /\ emitted' = << >>
  /\ toasts' = << >>
  /\ handled' = None
  /\ UNCHANGED << router, state, orphans, navTimers, now, requested, answered,
                  lastResult >>

\* The response reaches the subscribed effect (for create and close after
\* the gateway's delay): the effect raises its notifications and emits the
\* paired action, the reducer applies it, createAccountSuccess$ schedules
\* the navigation, and the inner subscription completes.
DeliverAt(k, t) ==
  /\ ~Idle(k)
  /\ Slot(k).phase = "responded"
  /\ LET o == EffectOutcome(k, Slot(k).req, Val(Slot(k).res), t)
     IN /\ emitted' = o.actions
        /\ toasts' = o.toasts
        /\ state' = ReduceAll(state, o.actions, t)
        /\ navTimers' = navTimers + TimersScheduledBy(o.actions)
        /\ lastResult' =
             [lastResult EXCEPT ![k] =
                IF \E i \in 1..Len(o.actions) : o.actions[i].type \in SuccessTypes
                THEN "success" ELSE "failure"]
        /\ handled' = Some([kind |-> k, seq |-> Slot(k).seq,
                            req |-> Slot(k).req, res |-> Val(Slot(k).res),
                            subscribed |-> TRUE, order |-> o.order])
  /\ inflight' = [inflight EXCEPT ![k] = None]
  /\ answered' = [answered EXCEPT ![k] = @ \cup {Slot(k).seq}]
  /\ now' = t
  /\ UNCHANGED << router, server, orphans, requested >>

Deliver(k) == \E t \in Clock : DeliverAt(k, t)

\* the server processes a request whose subscriber is gone
OrphanHandle ==
  \E o \in orphans :
    /\ o.phase = "sent"
    /\ \E r \in ServerResponses(o.kind, o.req, server) :
         /\ server' = r.server
         /\ orphans' = (orphans \ {o}) \cup
                        {[o EXCEPT !.phase = "responded", !.res = Some(r.res)]}
    /\ emitted' = << >>
    /\ toasts' = << >>
    /\ handled' = None
    /\ UNCHANGED << router, state, inflight, navTimers, now, requested, answered,
                    lastResult >>

\* OrphanOutcome of a flattening that keeps the replaced subscription
\* (mergeMap): the effect handles the response all the same
OrphanOutcome_stillSubscribed(o, t) ==
  EffectOutcome(o.kind, o.req, Val(o.res), t)

\* what a response does when it arrives: with a subscriber the effect
\* handles it, without one nothing is emitted
OrphanOutcome(o, t) == [order |-> << >>, toasts |-> << >>, actions |-> << >>]

\* the response of a superseded request arrives
OrphanArrive ==
  \E o \in orphans :
    /\ o.phase = "responded"
    /\ LET out == OrphanOutcome(o, now)
       IN /\ emitted' = out.actions
          /\ toasts' = out.toasts
          /\ state' = ReduceAll(state, out.actions, now)
          /\ handled' = Some([kind |-> o.kind, seq |-> o.seq, req |-> o.req,
                              res |-> Val(o.res), subscribed |-> FALSE,
                              order |-> out.order])
    /\ orphans' = orphans \ {o}
    /\ UNCHANGED << router, server, inflight, navTimers, now, requested, answered,
                    lastResult >>

\* the aborted request never reaches the server
OrphanLost ==
  \E o \in orphans :
    /\ o.phase = "sent"
    /\ orphans' = orphans \ {o}
    /\ emitted' = << >>
    /\ toasts' = << >>
    /\ handled' = None
    /\ UNCHANGED << router, state, server, inflight, navTimers, now, requested,
                    answered, lastResult >>

\* ---------------------------------------------------------------------------
\* Routing: the route table of app.routes.ts and the Router's recognition
\* ---------------------------------------------------------------------------

\* a URL is the sequence of its path segments: '/banking/accounts' is
\* << "banking", "accounts" >>, '/' is << >>; a route's path likewise

\* the path parts that bind a parameter (the parts starting with ':')
ParamParts == {":id", ":submenu", ":invoiceno"}

\* { path, component } with optional canActivate
Route(path, component, canActivate) ==
  [path |-> path, component |-> component, redirectTo |-> None,
   pathMatch |-> "prefix", canActivate |-> canActivate,
   canActivateChild |-> << >>, children |-> << >>]

\* { path, canActivate, canActivateChild, children } with optional component
Parent(path, component, canActivate, canActivateChild, children) ==
  [path |-> path, component |-> component, redirectTo |-> None,
   pathMatch |-> "prefix", canActivate |-> canActivate,
   canActivateChild |-> canActivateChild, children |-> children]

\* { path, redirectTo, pathMatch }
Redirect(path, redirectTo, pathMatch) ==
  [path |-> path, component |-> "", redirectTo |-> Some(redirectTo),
   pathMatch |-> pathMatch, canActivate |-> << >>,
   canActivateChild |-> << >>, children |-> << >>]

\* the children of the 'banking' route, the same in both copies of the table
bankingChildren ==
  << Redirect(<< >>, << "accounts" >>, "full"),
     Route(<< "accounts" >>, "AccountListComponent", << >>),
     Route(<< "create-account" >>, "AccountCreateComponent", << >>),
     Route(<< "account", ":id" >>, "AccountDetailsComponent", << >>) >>

\* the children of the 'customer' route, the same in both copies of the table
customerChildren ==
  << Route(<< "add" >>, "AddComponent", << "authGuard" >>),
     Route(<< "edit", ":id" >>, "AddComponent", << >>) >>

\* the route table that follows the account-create component: the wildcard
\* route stands before the banking routes
routes ==
  << Route(<< >>, "HomeComponent", << "authGuard" >>),
     Route(<< "about" >>, "AboutComponent", << "authGuard" >>),
     Route(<< "about", ":submenu", ":id" >>, "AboutComponent",
           << "authGuard" >>),
     Route(<< "login" >>, "LoginComponent", << >>),
     Route(<< "register" >>, "RegisterComponent", << >>),
     Route(<< "contact" >>, "ContactComponent", << "authGuard" >>),
     Parent(<< "customer" >>, "CustomerComponent", << "authGuard" >>,
            << "childauthGuard" >>, customerChildren),
     Route(<< "product" >>, "ProductComponent", << "authGuard" >>),
     Route(<< "learn" >>, "LearnComponent", << >>),
     Route(<< "productnew" >>, "NewproductComponent", << >>),
     Route(<< "mask" >>, "MaskComponent", << >>),
     Route(<< "invoice" >>, "ListComponent", << >>),
     Route(<< "createinvoice" >>, "AddinvoiceComponent", << >>),
     Route(<< "editinvoice", ":invoiceno" >>, "AddinvoiceComponent", << >>),
     Route(<< "**" >>, "StatusComponent", << >>),
     Parent(<< "banking" >>, "", << "authGuard" >>, << >>, bankingChildren) >>

\* the other copy of the route table: public routes first, every other route
\* guarded, the wildcard route last
routes_wildcardLast ==
  << Route(<< "login" >>, "LoginComponent", << >>),
     Route(<< "register" >>, "RegisterComponent", << >>),
     Route(<< >>, "HomeComponent", << "authGuard" >>),
     Route(<< "about" >>, "AboutComponent", << "authGuard" >>),
     Route(<< "about", ":submenu", ":id" >>, "AboutComponent",
           << "authGuard" >>),
     Route(<< "contact" >>, "ContactComponent", << "authGuard" >>),
     Parent(<< "customer" >>, "CustomerComponent", << "authGuard" >>,
            << "childauthGuard" >>, customerChildren),
     Route(<< "product" >>, "ProductComponent", << "authGuard" >>),
     Route(<< "learn" >>, "LearnComponent", << "authGuard" >>),
     Route(<< "productnew" >>, "NewproductComponent", << "authGuard" >>),
     Route(<< "mask" >>, "MaskComponent", << "authGuard" >>),
     Route(<< "invoice" >>, "ListComponent", << "authGuard" >>),
     Route(<< "createinvoice" >>, "AddinvoiceComponent", << "authGuard" >>),
     Route(<< "editinvoice", ":invoiceno" >>, "AddinvoiceComponent",
           << "authGuard" >>),
     Parent(<< "banking" >>, "", << "authGuard" >>, << >>, bankingChildren),
     Route(<< "**" >>, "StatusComponent", << >>) >>

\* the copies of the route table the application can be built with
RouteTables == {"routes", "routes_wildcardLast"}

RouteTable(name) == IF name = "routes" THEN routes ELSE routes_wildcardLast

\* the wildcard path, which matches every URL
IsWildcard(route) == route.path = << "**" >>

\* the position of the wildcard route in a table, 0 when it has none
WildcardPosition(table) ==
  IF \E i \in 1..Len(table) : IsWildcard(table[i])
  THEN CHOOSE i \in 1..Len(table) :
         /\ IsWildcard(table[i])
         /\ \A j \in 1..(i - 1) : ~IsWildcard(table[j])
  ELSE 0

\* the route's path matches the leading segments (all of them when
\* pathMatch is 'full'); a parameter part matches any segment
PathMatches(route, segments) ==
  /\ Len(route.path) <= Len(segments)
  /\ route.pathMatch = "full" => Len(route.path) = Len(segments)
  /\ \A j \in 1..Len(route.path) :
       route.path[j] \in ParamParts \/ route.path[j] = segments[j]

\* the segment the ':id' part of the route's path binds, '' without one
ParamId(route, segments) ==
  IF \E j \in 1..Len(route.path) : route.path[j] = ":id"
  THEN segments[CHOOSE j \in 1..Len(route.path) : route.path[j] = ":id"]
  ELSE ""

\* no route of the table matches
NoMatch ==
  [matched |-> FALSE, component |-> "", guards |-> << >>, url |-> << >>,
   id |-> ""]

\* the route is activated for the segments it consumed
Matched(route, segments) ==
  [matched |-> TRUE, component |-> route.component,
   guards |-> route.canActivate, url |-> segments,
   id |-> ParamId(route, segments)]

\* the routes of one level are tried in order from position i and the first
\* one that matches wins: a wildcard matches whatever is left, a redirect
\* restarts the level with the replaced segments, a route with children
\* matches when one of its children matches the remaining segments or when
\* no segment remains (the parent alone is activated), any other route when
\* no segment remains.  url is the URL after the redirects.
RECURSIVE Recognize(_, _, _)
Recognize(table, i, segments) ==
  IF i > Len(table) THEN NoMatch
  ELSE
    LET route == table[i]
        rest == SubSeq(segments, Len(route.path) + 1, Len(segments))
        tryNext == Recognize(table, i + 1, segments)
    IN IF IsWildcard(route) THEN Matched(route, segments)
       ELSE IF ~PathMatches(route, segments) THEN tryNext
       ELSE IF ~IsNull(route.redirectTo)
         THEN Recognize(table, 1, Val(route.redirectTo) \o rest)
       ELSE IF route.children = << >>
         THEN IF rest = << >> THEN Matched(route, segments) ELSE tryNext
       ELSE
         LET child == Recognize(route.children, 1, rest)
         IN IF child.matched
            THEN [child EXCEPT
                    !.guards = route.canActivate \o route.canActivateChild
                                 \o child.guards,
                    !.url = SubSeq(segments, 1, Len(route.path)) \o child.url]
            ELSE IF rest = << >> THEN Matched(route, segments)
            ELSE tryNext

\* the path segment of an account id
IdSegment(id) == ToString(id)

\* parseInt of a segment that does not start with a digit
NaN == -1

\* parseInt(id, 10)
ParseInt(segment) ==
  IF \E id \in Ids : IdSegment(id) = segment
  THEN CHOOSE id \in Ids : IdSegment(id) = segment
  ELSE NaN

\* the segments the URLs of the model are made of
Segments ==
  {"banking", "accounts", "create-account", "account", "transactions",
   "deposit", "withdraw", "customer", "login"}
    \cup {IdSegment(id) : id \in Ids}

\* the URLs of at most MaxSegments segments
Urls ==
  UNION {[1..n -> Segments] : n \in 0..MaxSegments}

\* the route table a navigation can be resolved with: the one the Router
\* was configured with, either copy before the first navigation
Configured(name) ==
  IF IsNull(router) THEN TRUE ELSE Val(router).table = name

\* the URL the Router is at
AtUrl(url) == IF IsNull(router) THEN FALSE ELSE Val(router).url = url

\* the component of the route activated last
Displayed(component) ==
  IF IsNull(router) THEN FALSE ELSE Val(router).component = component

\* what the activated component does with the route: the ngOnInit of
\* AccountListComponent dispatches loadAccounts, the paramMap subscription
\* of AccountDetailsComponent dispatches loadAccount for the id of the URL;
\* the guards of the route are taken to admit the navigation
Activated(store, found, t) ==
  IF found.component = "AccountListComponent"
  THEN Dispatched(store, "loadAccounts", [none |-> TRUE], t)
  ELSE IF found.component = "AccountDetailsComponent" /\ found.id # ""
  THEN Dispatched(store, "loadAccount",
                  [accountId |-> ParseInt(found.id)], t)
  ELSE store

\* router.navigateByUrl(url) at time t, from the store a step has reached:
\* the URL is recognized against the route table; a navigation that ends
\* at the URL the Router is at already activates nothing
Navigated(store, name, url, t) ==
  LET found == Recognize(RouteTable(name), 1, url)
  IN IF AtUrl(found.url) THEN [router |-> router, store |-> store]
     ELSE [router |-> Some([table |-> name, url |-> found.url,
                            component |-> found.component,
                            guards |-> found.guards, id |-> found.id]),
           store |-> Activated(store, found, t)]

\* the Router and the store after the navigation
RouterNavigates(store, url, t) ==
  \E name \in RouteTables :
    /\ Configured(name)
    /\ LET n == Navigated(store, name, url, t)
       IN /\ router' = n.router
          /\ Commit(n.store)

\* a component or the address bar navigates to a URL
NavigateByUrl(url) ==
  /\ RouterNavigates(Store, url, now)
  /\ emitted' = << >>
  /\ toasts' = << >>
  /\ handled' = None
  /\ UNCHANGED << server, navTimers, now, answered, lastResult >>

\* AccountDetailsComponent.closeAccount, confirmed: dispatch, then navigate
DetailsCloseAccount(id, t) ==
  /\ RouterNavigates(Dispatched(Store, "deleteAccount", CloseRequest(id, t), t),
                     << "banking", "accounts" >>, t)
  /\ emitted' = << >>
  /\ toasts' = << >>
  /\ handled' = None
  /\ now' = t
  /\ UNCHANGED << server, navTimers, answered, lastResult >>

\* closeAccount of the list page, or of the details page when that page
\* can be the one displayed and the step's two dispatches are within limit
CloseAccount(id, t, limit) ==
  \/ DeleteAccount(id, t)
  \/ /\ IF IsNull(router) THEN TRUE
        ELSE Displayed("AccountDetailsComponent")
     /\ TotalDispatched + 1 < limit
     /\ DetailsCloseAccount(id, t)

DispatchDeleteAccount ==
  \E id \in Ids, t \in Clock : CloseAccount(id, t, MaxDispatch)

\* the 1500 ms timer of createAccountSuccess$ fires: navigateByUrl
NavigateToAccounts ==
  /\ navTimers > 0
  /\ navTimers' = navTimers - 1
  /\ RouterNavigates(Store, << "banking", "accounts" >>, now)
  /\ emitted' = << >>
  /\ toasts' = << >>
  /\ handled' = None
  /\ UNCHANGED << server, now, answered, lastResult >>

\* the server after PATCH /accounts/:id with the updates, for a stored id
Patched(srv, id, updates) ==
  [srv EXCEPT ![id] = Some(updates @@ Val(srv[id]))]

\* AccountService.updateAccountBalance, which no effect and no component
\* calls: the PATCH reaches the server, the response goes to the caller
updateAccountBalance(accountId, newBalance, t) ==
  /\ ~Missing(server, accountId)
  /\ server' = Patched(server, accountId,
                       [balance |-> newBalance,
                        lastModifiedDate |-> DateToJson(t)])
  /\ emitted' = << >>
  /\ toasts' = << >>
  /\ handled' = None
  /\ UNCHANGED << router, state, inflight, orphans, navTimers, now,
                  requested, answered, lastResult >>

\* AccountService.updateAccountStatus, called by nothing either
updateAccountStatus(accountId, status, t) ==
  /\ ~Missing(server, accountId)
  /\ server' = Patched(server, accountId,
                       [status |-> status,
                        lastModifiedDate |-> DateToJson(t)])
  /\ emitted' = << >>
  /\ toasts' = << >>
  /\ handled' = None
  /\ UNCHANGED << router, state, inflight, orphans, navTimers, now,
                  requested, answered, lastResult >>

\* AccountService.deleteAccount, called by nothing either: DELETE removes
\* the record
deleteAccount(accountId) ==
  /\ ~Missing(server, accountId)
  /\ server' = [server EXCEPT ![accountId] = None]
  /\ emitted' = << >>
  /\ toasts' = << >>
  /\ handled' = None
  /\ UNCHANGED << router, state, inflight, orphans, navTimers, now,
                  requested, answered, lastResult >>

\* the user interface has dispatched fewer than limit actions
CanDispatch(limit) == TotalDispatched < limit

\* the response-side steps, which no input drives
SystemStep ==
  \/ \E k \in Kinds : ServerHandle(k)
  \/ \E k \in Kinds : Deliver(k)
  \/ OrphanHandle
  \/ OrphanArrive
  \/ OrphanLost

Next ==
  \/ CanDispatch(MaxDispatch) /\ DispatchLoadAccounts
  \/ CanDispatch(MaxDispatch) /\ DispatchLoadAccount
  \/ CanDispatch(MaxDispatch) /\ DispatchCreateAccount
  \/ CanDispatch(MaxDispatch) /\ DispatchDeleteAccount
  \/ CanDispatch(MaxDispatch) /\ DispatchCheckBalance
  \/ CanDispatch(MaxDispatch) /\ DispatchSelectAccount
  \/ CanDispatch(MaxDispatch) /\ DispatchClearError
  \/ CanDispatch(MaxDispatch) /\ NavigateToAccounts
  \/ SystemStep

Spec == Init /\ [][Next]_vars

\* Every HTTP request is eventually answered (by the server or by a
\* transport error) and every response that reached a subscribed effect is
\* eventually handled by the event loop.
Fairness ==
  \A k \in Kinds : WF_vars(ServerHandle(k)) /\ WF_vars(DeliverAt(k, now))

\* One effect stream on its own: all the requests of a run are of one kind.
\* The effects share no state, so a stream behaves alone as it does among
\* the others.
OnlyKind(k) == \A j \in Dispatchable \ {k} : requested[j] = 0

\* the inputs of the requests of StreamSpec: the account db.json starts
\* with, and one form submission
StreamIds == {1}

StreamCreateRequests == {[accountType |-> "CURRENT", initialDeposit |-> 8000]}

StreamAccountNumbers == AccountNumbers

StreamNext ==
  \/ CanDispatch(MaxStream) /\ OnlyKind("loadAccounts") /\ LoadAccounts(now)
  \/ CanDispatch(MaxStream) /\ OnlyKind("loadAccount")
       /\ \E id \in StreamIds : LoadAccount(id, now)
  \/ CanDispatch(MaxStream) /\ OnlyKind("createAccount")
       /\ \E r \in StreamCreateRequests, num \in StreamAccountNumbers :
            CreateAccount(r, num, now)
  \/ CanDispatch(MaxStream) /\ OnlyKind("deleteAccount")
       /\ \E id \in StreamIds : CloseAccount(id, now, MaxStream)
  \/ CanDispatch(MaxStream) /\ OnlyKind("checkBalance")
       /\ \E id \in StreamIds : CheckBalance(id, now)
  \/ \E k \in Kinds : ServerHandle(k)
  \/ \E k \in Kinds : DeliverAt(k, now)
  \/ OrphanHandle
  \/ OrphanArrive
  \/ OrphanLost
  \/ NavigateToAccounts

StreamSpec == Init /\ [][StreamNext]_vars /\ Fairness

\* ------------------------------------------------------------------------
\* The error path: the gateway's handleError and the effects' catchError
\* over every class of transport failure
\* ------------------------------------------------------------------------

\* the statuses the taxonomy names, and one it does not (503)
ErrorStatuses == {0, 400, 401, 403, 404, 409, 422, 500, 503}

\* the HttpErrorResponse objects handleError may be handed: one per status,
\* and a client-side ErrorEvent
HttpErrors ==
  {HttpError(st, StatusText(st)) : st \in ErrorStatuses}
    \cup {[HttpError(0, StatusText(0)) EXCEPT
             !.errorEvent = Some(<< "Failed to fetch" >>)]}

\* the HTTP call of effect k fails with e (retry(1) of getAllAccounts
\* resubscribes on the first failure)
TransportFailure(k) ==
  /\ ~Idle(k)
  /\ Slot(k).phase = "sent"
  /\ \E e \in HttpErrors :
       LET res == [ok |-> FALSE, err |-> e]
       IN inflight' =
            [inflight EXCEPT ![k] =
               IF Retries(k, Slot(k), res)
               THEN Some([Slot(k) EXCEPT !.attempt = 2])
               ELSE Some([Slot(k) EXCEPT !.phase = "responded",
                                         !.res = Some(res)])]
  /\ emitted' = << >>
  /\ toasts' = << >>
  /\ handled' = None
  /\ UNCHANGED << router, state, server, orphans, navTimers, now, requested, answered,
                  lastResult >>

ErrorNext ==
  \/ CanDispatch(MaxDispatch) /\ LoadAccounts(now)
  \/ CanDispatch(MaxDispatch) /\ \E id \in StreamIds : LoadAccount(id, now)
  \/ CanDispatch(MaxDispatch)
       /\ \E r \in StreamCreateRequests, num \in StreamAccountNumbers :
            CreateAccount(r, num, now)
  \/ CanDispatch(MaxDispatch)
       /\ \E id \in StreamIds : CloseAccount(id, now, MaxDispatch)
  \/ CanDispatch(MaxDispatch) /\ \E id \in StreamIds : CheckBalance(id, now)
  \/ \E k \in Kinds : TransportFailure(k)
  \/ \E k \in Kinds : DeliverAt(k, now)

ErrorSpec == Init /\ [][ErrorNext]_vars

\* ------------------------------------------------------------------------
\* Balance reads: the store and the gateway over a server whose accounts
\* are drawn from both types, on both sides of each low-balance threshold
\* ------------------------------------------------------------------------

SavingsBalances == {1500, 1999, 2000}

CurrentBalances == {100, 6999, 7000}

\* overdraftLimit of a CURRENT account in db.json: the limit createAccount
\* writes, or a stored 0
CurrentOverdrafts == {Some(ACCOUNT_RULES.CURRENT.OVERDRAFT_LIMIT), Some(0)}

\* an account as db.json stores it
BalanceAccount(id, type, balance) ==
  Stored(NewAccountPayload([accountType |-> type, initialDeposit |-> balance],
                           "ACC999999999", 0), id)

\* db.json with one SAVINGS account (id 1) and one CURRENT account (id 2)
BalanceServers ==
  {[i \in Ids |->
      IF i = 1 THEN Some(BalanceAccount(1, "SAVINGS", sb))
      ELSE IF i = 2
      THEN Some([BalanceAccount(2, "CURRENT", cb) EXCEPT !.overdraftLimit = od])
      ELSE None] :
     sb \in SavingsBalances, cb \in CurrentBalances, od \in CurrentOverdrafts}

BalanceInit ==
  /\ state = initialAccountState
  /\ server \in BalanceServers
  /\ inflight = [k \in Kinds |-> None]
  /\ orphans = {}
  /\ emitted = << >>
  /\ toasts = << >>
  /\ navTimers = 0
  /\ now = 0
  /\ requested = [k \in Dispatchable |-> 0]
  /\ answered = [k \in Kinds |-> {}]
  /\ handled = None
  /\ lastResult = [k \in Kinds |-> "none"]
  /\ router = None

BalanceKinds == {"loadAccounts", "loadAccount", "checkBalance"}

BalanceNext ==
  \/ CanDispatch(MaxDispatch) /\ LoadAccounts(now)
  \/ CanDispatch(MaxDispatch) /\ \E id \in StoredIds(server) : LoadAccount(id, now)
  \/ CanDispatch(MaxDispatch) /\ \E id \in StoredIds(server) : CheckBalance(id, now)
  \/ \E k \in BalanceKinds : ServerHandle(k)
  \/ \E k \in BalanceKinds : DeliverAt(k, now)
  \/ OrphanHandle
  \/ OrphanArrive
  \/ OrphanLost

BalanceSpec == BalanceInit /\ [][BalanceNext]_vars

\* ------------------------------------------------------------------------
\* Totals: the store loaded from a server whose accounts are of every
\* status
\* ------------------------------------------------------------------------

\* db.json with a SAVINGS account (id 1) and a CURRENT account (id 2), each
\* ACTIVE, CLOSED or SUSPENDED
TotalsServers ==
  {[i \in Ids |->
      IF i = 1
      THEN Some([BalanceAccount(1, "SAVINGS", 1500) EXCEPT !.status = s1])
      ELSE IF i = 2
      THEN Some([BalanceAccount(2, "CURRENT", 8000) EXCEPT
                   !.status = s2, !.overdraftLimit = od])
      ELSE None] :
     s1 \in AccountStatus, s2 \in AccountStatus, od \in CurrentOverdrafts}

TotalsInit ==
  /\ state = initialAccountState
  /\ server \in TotalsServers
  /\ inflight = [k \in Kinds |-> None]
  /\ orphans = {}
  /\ emitted = << >>
  /\ toasts = << >>
  /\ navTimers = 0
  /\ now = 0
  /\ requested = [k \in Dispatchable |-> 0]
  /\ answered = [k \in Kinds |-> {}]
  /\ handled = None
  /\ lastResult = [k \in Kinds |-> "none"]
  /\ router = None

TotalsKinds == {"loadAccounts", "loadAccount", "deleteAccount"}

TotalsNext ==
  \/ CanDispatch(MaxDispatch) /\ LoadAccounts(now)
  \/ CanDispatch(MaxDispatch) /\ \E id \in StoredIds(server) : LoadAccount(id, now)
  \/ CanDispatch(MaxDispatch)
       /\ \E id \in StoredIds(server) : CloseAccount(id, now, MaxDispatch)
  \/ \E k \in TotalsKinds : ServerHandle(k)
  \/ \E k \in TotalsKinds : DeliverAt(k, now)
  \/ OrphanHandle
  \/ OrphanArrive
  \/ OrphanLost

TotalsSpec == TotalsInit /\ [][TotalsNext]_vars

\* ------------------------------------------------------------------------
\* Staleness: the store over a clock that runs for minutes between the
\* user's actions
\* ------------------------------------------------------------------------

\* minutes pass while no request is out
Elapse ==
  /\ \A k \in Kinds : Idle(k)
  /\ orphans = {}
  /\ \E d \in {1, FIVE_MINUTES} :
       /\ now + d <= MaxMinutes
       /\ now' = now + d
  /\ emitted' = << >>
  /\ toasts' = << >>
  /\ handled' = None
  /\ UNCHANGED << router, state, server, inflight, orphans, navTimers, requested,
                  answered, lastResult >>

RefreshNext ==
  \/ CanDispatch(MaxDispatch) /\ LoadAccounts(now)
  \/ CanDispatch(MaxDispatch) /\ \E id \in StreamIds : LoadAccount(id, now)
  \/ CanDispatch(MaxDispatch)
       /\ \E r \in StreamCreateRequests, num \in StreamAccountNumbers :
            CreateAccount(r, num, now)
  \/ CanDispatch(MaxDispatch)
       /\ \E id \in StreamIds : CloseAccount(id, now, MaxDispatch)
  \/ CanDispatch(MaxDispatch) /\ \E id \in StreamIds : CheckBalance(id, now)
  \/ \E k \in Kinds : ServerHandle(k)
  \/ \E k \in Kinds : DeliverAt(k, now)
  \/ OrphanHandle
  \/ OrphanArrive
  \/ OrphanLost
  \/ NavigateToAccounts
  \/ Elapse

RefreshSpec == Init /\ [][RefreshNext]_vars

\* ------------------------------------------------------------------------
\* Overlapping requests under fair scheduling: a read through exhaustMap
\* and a write through switchMap, every response eventually delivered
\* ------------------------------------------------------------------------

SettleKinds == {"loadAccounts", "createAccount"}

SettleNext ==
  \/ CanDispatch(MaxDispatch) /\ LoadAccounts(now)
  \/ CanDispatch(MaxDispatch)
       /\ \E r \in StreamCreateRequests, num \in StreamAccountNumbers :
            CreateAccount(r, num, now)
  \/ \E k \in SettleKinds : ServerHandle(k)
  \/ \E k \in SettleKinds : DeliverAt(k, now)
  \/ OrphanHandle
  \/ OrphanArrive
  \/ OrphanLost
  \/ NavigateToAccounts

SettleSpec == Init /\ [][SettleNext]_vars /\ Fairness

\* ------------------------------------------------------------------------
\* Navigation: RouteSpec follows the Router from its initial navigation
\* through the steps of the banking components, of the application menu
\* and of createAccountSuccess$; a component acts while it is displayed
\* ------------------------------------------------------------------------

\* the Router's initial navigation, to the URL of the address bar
InitialNavigation ==
  /\ IsNull(router)
  /\ \E url \in Urls : NavigateByUrl(url)

\* AccountListComponent.loadAccounts, on the page displayed
ListLoadAccounts ==
  /\ Displayed("AccountListComponent")
  /\ CanDispatch(MaxDispatch)
  /\ LoadAccounts(now)

\* AccountListComponent.createAccount
ListCreateAccount ==
  /\ Displayed("AccountListComponent")
  /\ NavigateByUrl(<< "banking", "create-account" >>)

\* AccountListComponent.viewAccountDetails, for the id it is given
ListViewAccountDetails ==
  /\ Displayed("AccountListComponent")
  /\ CanDispatch(MaxDispatch)
  /\ \E id \in Ids :
       NavigateByUrl(<< "banking", "account", IdSegment(id) >>)

\* AccountListComponent.closeAccount, confirmed, for the account it is given
ListCloseAccount ==
  /\ Displayed("AccountListComponent")
  /\ CanDispatch(MaxDispatch)
  /\ \E id \in Ids : DeleteAccount(id, now)

\* AccountCreateComponent.onSubmit with valid forms
CreateSubmit ==
  /\ Displayed("AccountCreateComponent")
  /\ CanDispatch(MaxDispatch)
  /\ \E r \in StreamCreateRequests, num \in StreamAccountNumbers :
       CreateAccount(r, num, now)

\* AccountCreateComponent.cancel, confirmed
CreateCancel ==
  /\ Displayed("AccountCreateComponent")
  /\ CanDispatch(MaxDispatch)
  /\ NavigateByUrl(<< "banking", "accounts" >>)

\* the accountId field of AccountDetailsComponent
DetailsAccountId == ParseInt(Val(router).id)

\* AccountDetailsComponent.refreshBalance: nothing for a falsy accountId
DetailsRefreshBalance ==
  /\ Displayed("AccountDetailsComponent")
  /\ CanDispatch(MaxDispatch)
  /\ DetailsAccountId \notin {NaN, 0}
  /\ CheckBalance(DetailsAccountId, now)

\* AccountDetailsComponent.navigateToTransactions, for the account it is given
DetailsNavigateToTransactions ==
  /\ Displayed("AccountDetailsComponent")
  /\ \E id \in Ids :
       NavigateByUrl(<< "banking", "transactions", IdSegment(id) >>)

\* AccountDetailsComponent.navigateToDeposit, for the account it is given
DetailsNavigateToDeposit ==
  /\ Displayed("AccountDetailsComponent")
  /\ \E id \in Ids :
       NavigateByUrl(<< "banking", "deposit", IdSegment(id) >>)

\* AccountDetailsComponent.navigateToWithdraw, for the account it is given
DetailsNavigateToWithdraw ==
  /\ Displayed("AccountDetailsComponent")
  /\ \E id \in Ids :
       NavigateByUrl(<< "banking", "withdraw", IdSegment(id) >>)

\* AccountDetailsComponent.closeAccount, confirmed, for the account it is
\* given
DetailsClose ==
  /\ Displayed("AccountDetailsComponent")
  /\ CanDispatch(MaxDispatch)
  /\ \E id \in Ids : DetailsCloseAccount(id, now)

\* AccountDetailsComponent.goBack
DetailsGoBack ==
  /\ Displayed("AccountDetailsComponent")
  /\ CanDispatch(MaxDispatch)
  /\ NavigateByUrl(<< "banking", "accounts" >>)

\* AppmenuComponent.logout, confirmed
Logout ==
  /\ ~IsNull(router)
  /\ NavigateByUrl(<< "login" >>)

RouteNext ==
  \/ InitialNavigation
  \/ ListLoadAccounts
  \/ ListCreateAccount
  \/ ListViewAccountDetails
  \/ ListCloseAccount
  \/ CreateSubmit
  \/ CreateCancel
  \/ DetailsRefreshBalance
  \/ DetailsNavigateToTransactions
  \/ DetailsNavigateToDeposit
  \/ DetailsNavigateToWithdraw
  \/ DetailsClose
  \/ DetailsGoBack
  \/ Logout
  \/ \E k \in Kinds : ServerHandle(k)
  \/ \E k \in Kinds : DeliverAt(k, now)
  \/ OrphanHandle
  \/ OrphanArrive
  \/ OrphanLost
  \/ NavigateToAccounts

RouteSpec == Init /\ [][RouteNext]_vars

\* ------------------------------------------------------------------------
\* The gateway's write methods that the store never calls, next to the
\* list the store loads: ServiceSpec lets a caller outside the store use
\* them
\* ------------------------------------------------------------------------

\* the balances updateAccountBalance is called with
ServiceBalances == {ACCOUNT_RULES.SAVINGS.MIN_BALANCE, 9000}

ServiceNext ==
  \/ CanDispatch(MaxDispatch) /\ LoadAccounts(now)
  \/ ServerHandle("loadAccounts")
  \/ DeliverAt("loadAccounts", now)
  \/ \E id \in Ids, balance \in ServiceBalances :
       updateAccountBalance(id, balance, now)
  \/ \E id \in Ids, status \in AccountStatus :
       updateAccountStatus(id, status, now)
  \/ \E id \in Ids : deleteAccount(id)

ServiceSpec == Init /\ [][ServiceNext]_vars

\* ------------------------------------------------------------------------
\* The reducer on its own: ReducerSpec starts in any of a bounded set of
\* states of the slice and applies one action to it (and, for the two
\* compositions below, a second one).  emitted holds the action applied in
\* the last step.
\* ------------------------------------------------------------------------

\* an Account as the store holds it: odd ids are SAVINGS accounts, even ids
\* CURRENT accounts, as the gateway creates them
SampleAccount(id) ==
  transformAccountDate(
    Stored(NewAccountPayload(
             IF id % 2 = 1
             THEN [accountType |-> "SAVINGS", initialDeposit |-> 1500]
             ELSE [accountType |-> "CURRENT", initialDeposit |-> 8000],
             "ACC999999999", 0), id))

SampleAccounts == {SampleAccount(id) : id \in Ids}

\* the lists of at most MaxAccounts sample accounts, repeated ids included
AccountLists == UNION {[1..n -> SampleAccounts] : n \in 0..MaxAccounts}

\* selectedAccountId and selectedAccount: the reducer sets them together, and
\* selectAccount keeps the id of an account it did not find
Selections ==
  {[id |-> None, account |-> None]}
    \cup {[id |-> Some(i), account |-> None] : i \in Ids}
    \cup {[id |-> Some(i), account |-> Some(SampleAccount(i))] : i \in Ids}

\* lastUpdated and initialized: every Success sets lastUpdated,
\* loadAccountsSuccess alone sets initialized
Syncs ==
  {[lastUpdated |-> None, initialized |-> FALSE],
   [lastUpdated |-> Some(0), initialized |-> FALSE],
   [lastUpdated |-> Some(0), initialized |-> TRUE]}

ErrorMessages == {handleError(HttpError(404, StatusText(404)))}

ReducerStates ==
  {st \in
     {[accounts |-> accs,
       selectedAccount |-> sel.account,
       selectedAccountId |-> sel.id,
       loading |-> l,
       error |-> e,
       lastUpdated |-> sy.lastUpdated,
       initialized |-> sy.initialized] :
        accs \in AccountLists, sel \in Selections, l \in BOOLEAN,
        e \in {None} \cup {Some(m) : m \in ErrorMessages}, sy \in Syncs} :
     /\ (st.accounts # << >> \/ ~IsNull(st.selectedAccount))
          => ~IsNull(st.lastUpdated)
     /\ ~IsNull(st.error) => ~st.loading}

ReducerInit ==
  /\ state \in ReducerStates
  /\ server = InitialServer
  /\ inflight = [k \in Kinds |-> None]
  /\ orphans = {}
  /\ emitted = << >>
  /\ toasts = << >>
  /\ navTimers = 0
  /\ now = 0
  /\ requested = [k \in Dispatchable |-> 0]
  /\ answered = [k \in Kinds |-> {}]
  /\ handled = None
  /\ lastResult = [k \in Kinds |-> "none"]
  /\ router = None

\* the store applies action a at time t
Reduce(a, t) ==
  /\ state' = accountReducer(state, a, t)
  /\ emitted' = << a >>
  /\ now' = t
  /\ toasts' = << >>
  /\ handled' = None
  /\ UNCHANGED << router, server, inflight, orphans, navTimers, requested, answered,
                  lastResult >>

\* the first action applied to the drawn state
Apply(a, t) == emitted = << >> /\ Reduce(a, t)

\* the Success action effect k emits for the value its gateway call returned
SuccessAction(k, req, value) == EffectSuccess(k, req, value).actions[1]

\* the balance-check response for account id with the balance the server
\* reports
BalanceResponses ==
  {BalanceCheck([SampleAccount(id) EXCEPT !.balance = 999]) : id \in Ids}

ApplyRequest ==
  \E k \in Kinds, t \in Clock :
    Apply([type |-> k, payload |-> [none |-> TRUE]], t)

ApplyFailure ==
  \E k \in Kinds, m \in ErrorMessages, t \in Clock :
    Apply(EffectFailure(k, ErrorObject(m)).actions[1], t)

ApplyLoadAccountsSuccess ==
  \E accs \in AccountLists, t \in Clock :
    Apply(SuccessAction("loadAccounts", [none |-> TRUE], accs), t)

ApplyLoadAccountSuccess ==
  \E id \in Ids, t \in Clock :
    Apply(SuccessAction("loadAccount", [accountId |-> id], SampleAccount(id)),
          t)

ApplyCreateAccountSuccess ==
  \E id \in Ids, t \in Clock :
    Apply([type |-> "createAccountSuccess",
           response |-> [success |-> TRUE,
                         message |-> << "Account ",
                                        SampleAccount(id).accountNumber,
                                        " created successfully!" >>,
                         account |-> SampleAccount(id)]], t)

ApplyDeleteAccountSuccess ==
  \E id \in Ids, t \in Clock :
    Apply([type |-> "deleteAccountSuccess", accountId |-> id], t)

ApplyCheckBalanceSuccess ==
  \E r \in BalanceResponses, t \in Clock :
    Apply(SuccessAction("checkBalance", [accountId |-> r.accountId], r), t)

ApplySelectAccount ==
  \E sel \in {None} \cup {Some(id) : id \in Ids}, t \in Clock :
    Apply([type |-> "selectAccount", accountId |-> sel], t)

ApplyClearError == \E t \in Clock : Apply([type |-> "clearError"], t)

\* selectAccount of an account of the list loadAccountsSuccess just stored
SelectAfterLoad ==
  /\ emitted # << >>
  /\ emitted[1].type = "loadAccountsSuccess"
  /\ \E id \in IdsOf(emitted[1].accounts), t \in Clock :
       Reduce([type |-> "selectAccount", accountId |-> Some(id)], t)

\* loadAccountsSuccess answering the loadAccounts just dispatched
LoadAccountsAnswered ==
  /\ emitted # << >>
  /\ emitted[1].type = "loadAccounts"
  /\ \E accs \in AccountLists, t \in Clock :
       Reduce(SuccessAction("loadAccounts", [none |-> TRUE], accs), t)

\* clearError dispatched again
ClearErrorAgain ==
  /\ emitted = << [type |-> "clearError"] >>
  /\ \E t \in Clock : Reduce([type |-> "clearError"], t)

ReducerNext ==
  \/ ApplyRequest
  \/ ApplyFailure
  \/ ApplyLoadAccountsSuccess
  \/ ApplyLoadAccountSuccess
  \/ ApplyCreateAccountSuccess
  \/ ApplyDeleteAccountSuccess
  \/ ApplyCheckBalanceSuccess
  \/ ApplySelectAccount
  \/ ApplyClearError
  \/ SelectAfterLoad
  \/ LoadAccountsAnswered
  \/ ClearErrorAgain

ReducerSpec == ReducerInit /\ [][ReducerNext]_vars

\* ------------------------------------------------------------------------
\* Properties
\* ------------------------------------------------------------------------

Quiescent == (\A k \in Kinds : Idle(k)) /\ orphans = {}

WriteKinds == {"createAccount", "deleteAccount"}

ReadKinds == {"loadAccounts", "loadAccount", "checkBalance"}

\* request number n of kind k is still awaiting its response
Pending(k, n) == ~Idle(k) /\ Slot(k).seq = n

\* C1: every createAccount or deleteAccount action dispatched gets its own
\* paired Success or Failure action: at any time each such request has
\* either been answered or is still awaiting its HTTP response, also when a
\* later request of the same kind was dispatched meanwhile.
C1_EveryWriteRequestAnswered ==
  \A k \in WriteKinds : \A n \in 1..requested[k] :
    n \in answered[k] \/ Pending(k, n)

\* C2: for the read effects the latest request wins: whenever the success
\* of a read request is applied to the store, that request is the one
\* dispatched last of its kind (for loadAccount the store then selects the
\* account id of the last loadAccount dispatched).
C2_LatestReadWins ==
  (/\ ~IsNull(handled)
   /\ Val(handled).subscribed
   /\ Val(handled).kind \in ReadKinds
   /\ Val(handled).res.ok)
  => Val(handled).seq = requested[Val(handled).kind]

\* C3: no two accounts of the store's collection have the same id.
C3_UniqueAccountIds ==
  \A i, j \in 1..Len(state.accounts) :
    i # j => state.accounts[i].id # state.accounts[j].id

\* C4: selectedAccountId is null or the id of an account in the collection.
C4_SelectedIdInCollection ==
  IsNull(state.selectedAccountId)
    \/ Val(state.selectedAccountId) \in IdsOf(state.accounts)

\* C5: loading = true implies that an HTTP request issued by an account
\* effect is still in flight.
C5_LoadingImpliesInFlight ==
  state.loading => \E k \in Kinds : ~Idle(k)

\* C5 witness: the store is loading after a loadAccounts action that
\* exhaustMap ignored because an earlier one is still in flight.
C5_Witness ==
  /\ state.loading
  /\ requested["loadAccounts"] = 2
  /\ Pending("loadAccounts", 1)

\* C6: the response of a request that switchMap has replaced, whenever it
\* arrives, produces no action, raises no notification and leaves the store
\* unchanged.
C6_SupersededResponseIgnored ==
  [][(~IsNull(handled') /\ ~Val(handled').subscribed)
       => (state' = state /\ emitted' = << >> /\ toasts' = << >>)]_vars

\* C6 witness: the successful response of a replaced request has arrived.
C6_Witness ==
  /\ ~IsNull(handled)
  /\ ~Val(handled).subscribed
  /\ Val(handled).res.ok

\* C7: when nothing is in flight and the most recent load, create and close
\* operations have succeeded, the ids in the store's collection are the ids
\* the server would return from loadAccounts; in particular, after a
\* successful close the store and the server agree on whether the closed
\* account is present.
C7_StoreInSyncWithServer ==
  (/\ Quiescent
   /\ lastResult["loadAccounts"] = "success"
   /\ lastResult["deleteAccount"] = "success"
   /\ lastResult["createAccount"] # "failure"
   /\ lastResult["loadAccount"] # "failure")
  => IdsOf(state.accounts) = IdsOf(transformAccountDates(GetAll(server)))

\* the fields a request and its failure must not touch
SameData(s1, s2) ==
  /\ s1.accounts = s2.accounts
  /\ s1.selectedAccount = s2.selectedAccount
  /\ s1.selectedAccountId = s2.selectedAccountId
  /\ s1.lastUpdated = s2.lastUpdated
  /\ s1.initialized = s2.initialized

\* this step dispatched a request action
RequestStep == \E k \in Kinds : requested'[k] # requested[k]

\* this step emitted a Failure action
FailureStep == emitted' # << >> /\ emitted'[1].type \in FailureTypes

\* C8: neither a request action nor the Failure action that answers it
\* changes accounts, selectedAccount, selectedAccountId, lastUpdated or
\* initialized; the Failure sets loading to false and error to its payload.
C8_FailureLeavesDataIntact ==
  [][/\ RequestStep => SameData(state, state')
     /\ FailureStep => /\ SameData(state, state')
                       /\ state'.loading = FALSE
                       /\ state'.error = Some(emitted'[1].error)]_vars

\* C8 witness: a Failure action was applied to a store that holds accounts
\* and a selection.
C8_Witness ==
  /\ emitted # << >>
  /\ emitted[1].type \in FailureTypes
  /\ state.accounts # << >>
  /\ ~IsNull(state.selectedAccount)

\* C9: a failed HTTP call whose outcome an effect handles yields exactly
\* one paired Failure action and exactly one error notification, both with
\* the message the gateway produced for the failure, and state.error is
\* that message after the transition.
C9_OneFailureOneNotification ==
  (/\ ~IsNull(handled)
   /\ Val(handled).subscribed
   /\ ~Val(handled).res.ok)
  => LET k == Val(handled).kind
         m == handleError(Val(handled).res.err)
     IN /\ emitted = << [type |-> FailureType(k), error |-> m] >>
        /\ toasts = << Toast("error", ErrorTitle(k), m) >>
        /\ state.error = Some(m)

\* C9 witness: an effect has handled a 404 response.
C9_Witness ==
  /\ ~IsNull(handled)
  /\ Val(handled).subscribed
  /\ ~Val(handled).res.ok
  /\ Val(handled).res.err.status = 404

\* request number n of kind k was accepted by its effect after a request
\* of that kind had failed, and awaits its response
PendingAfterFailure(k, n) == lastResult[k] = "failure" /\ Pending(k, n)

\* a newer request of kind k has taken the place of request n
Replaced(k, n) == ~Idle(k) /\ Slot(k).seq > n

\* C10 as stated: a request dispatched after a request of its kind failed
\* yields its own paired Success or Failure action: once its effect has
\* subscribed to its HTTP call, the request stays subscribed until its own
\* outcome is emitted.
C10_OwnOutcomeAfterFailure ==
  [][\A k \in Kinds : \A n \in 1..MaxStream :
       PendingAfterFailure(k, n) => (Pending(k, n)' \/ n \in answered'[k])]_vars

\* C10 as amended: after a request of a kind has failed, the next request of
\* that kind still triggers an HTTP call, and it eventually yields its own
\* paired Success or Failure action unless a newer request of the same kind
\* replaces it first.
C10_StreamSurvivesFailure ==
  /\ [][\A k \in Kinds :
          (lastResult[k] = "failure" /\ Idle(k) /\ requested'[k] # requested[k])
            => (~Idle(k))' /\ Slot(k)'.seq = requested'[k]
                 /\ Slot(k)'.phase = "sent"]_vars
  /\ [][\A k \in Kinds : \A n \in 1..MaxStream :
          PendingAfterFailure(k, n)
            => (Pending(k, n)' \/ n \in answered'[k] \/ Replaced(k, n)')]_vars
  /\ \A k \in Kinds : \A n \in 1..MaxStream :
       PendingAfterFailure(k, n) ~> (n \in answered[k] \/ Replaced(k, n))

\* C10 witness: the first request of a kind failed, and the request
\* dispatched after it has been sent to the server and answered.
C10_Witness ==
  \E k \in Kinds :
    /\ requested[k] = 2
    /\ PendingAfterFailure(k, 2)
    /\ Slot(k).phase = "responded"
    /\ Val(Slot(k).res).ok

\* the action the store applied in this step, when it has type ty
Applied(ty) == emitted' # << >> /\ emitted'[1].type = ty

\* account b is account a with the balance and lastModifiedDate given
Refreshed(a, b, balance, t) ==
  /\ b.balance = balance
  /\ b.lastModifiedDate = t
  /\ [b EXCEPT !.balance = a.balance,
               !.lastModifiedDate = a.lastModifiedDate] = a

\* C11: deleteAccountSuccess{accountId: X} removes every account with id X
\* from the collection and keeps the other accounts in their order; when
\* selectedAccountId was X, selectedAccountId and selectedAccount are null
\* afterwards, otherwise both are unchanged.
C11_DeleteRemovesThatIdOnly ==
  [][Applied("deleteAccountSuccess") =>
       LET X == emitted'[1].accountId
           Other(acc) == acc.id # X
       IN /\ state'.accounts = SelectSeq(state.accounts, Other)
          /\ state.selectedAccountId = Some(X)
               => /\ state'.selectedAccountId = None
                  /\ state'.selectedAccount = None
          /\ state.selectedAccountId # Some(X)
               => /\ state'.selectedAccountId = state.selectedAccountId
                  /\ state'.selectedAccount = state.selectedAccount]_vars

\* C11 witness: a deleteAccountSuccess has been applied that left another
\* account in the collection and cleared the selection.
C11_Witness ==
  /\ emitted # << >>
  /\ emitted[1].type = "deleteAccountSuccess"
  /\ state.accounts # << >>
  /\ emitted[1].accountId \notin IdsOf(state.accounts)
  /\ state.selectedAccountId = None
  /\ state.loading = FALSE

\* C12: checkBalanceSuccess{response: r} sets balance to r.currentBalance and
\* lastModifiedDate to the time of the transition on every account whose id
\* is r.accountId, leaves the other accounts, the length and the order of
\* the collection unchanged (so the whole collection when no account has
\* that id), and updates selectedAccount the same way exactly when its id
\* is r.accountId.
C12_CheckBalanceUpdatesInPlace ==
  [][Applied("checkBalanceSuccess") =>
       LET r == emitted'[1].response
       IN /\ Len(state'.accounts) = Len(state.accounts)
          /\ \A i \in 1..Len(state.accounts) :
               IF state.accounts[i].id = r.accountId
               THEN Refreshed(state.accounts[i], state'.accounts[i],
                              r.currentBalance, now')
               ELSE state'.accounts[i] = state.accounts[i]
          /\ IF /\ ~IsNull(state.selectedAccount)
                /\ Val(state.selectedAccount).id = r.accountId
             THEN /\ ~IsNull(state'.selectedAccount)
                  /\ Refreshed(Val(state.selectedAccount),
                               Val(state'.selectedAccount),
                               r.currentBalance, now')
             ELSE state'.selectedAccount = state.selectedAccount]_vars

\* C12 witness: a checkBalanceSuccess has been applied that updated the
\* selected account and one account of a collection of two.
C12_Witness ==
  /\ emitted # << >>
  /\ emitted[1].type = "checkBalanceSuccess"
  /\ ~IsNull(state.selectedAccount)
  /\ Val(state.selectedAccount).balance = emitted[1].response.currentBalance
  /\ Len(state.accounts) = 2
  /\ state.accounts[1].balance = emitted[1].response.currentBalance
  /\ state.accounts[2].balance # emitted[1].response.currentBalance

\* C13: after loadAccountsSuccess{accounts: A}, selectAccount{id} for an id
\* occurring in A makes selectSelectedAccount return the element of A with
\* that id.
C13_SelectAfterLoadRoundTrip ==
  [][(/\ emitted # << >>
      /\ emitted[1].type = "loadAccountsSuccess"
      /\ Applied("selectAccount")
      /\ ~IsNull(emitted'[1].accountId)
      /\ Val(emitted'[1].accountId) \in IdsOf(emitted[1].accounts))
     => LET A == emitted[1].accounts
            id == Val(emitted'[1].accountId)
            got == selectSelectedAccount(state')
        IN /\ ~IsNull(got)
           /\ Val(got).id = id
           /\ \E i \in 1..Len(A) : A[i] = Val(got)]_vars

\* C13 witness: the second account of a loaded list of two has been
\* selected.
C13_Witness ==
  /\ emitted # << >>
  /\ emitted[1].type = "selectAccount"
  /\ Len(state.accounts) = 2
  /\ state.accounts[1].id # state.accounts[2].id
  /\ selectSelectedAccount(state) = Some(state.accounts[2])

\* C14: the reducer is deterministic: applying the action of a step to the
\* state before the step once more, at any later reading of the clock,
\* yields the state the step produced, in every field.
C14_ReducerDeterministic ==
  [][emitted' # << >> =>
       \A t \in now'..MaxClock :
         accountReducer(state, emitted'[1], t) = state']_vars

\* C15: clearError sets error to null and changes no other field, and
\* applying it a second time changes nothing.
C15_ClearErrorIdempotent ==
  [][Applied("clearError") =>
       /\ state' = [state EXCEPT !.error = None]
       /\ accountReducer(state', emitted'[1], now') = state'
       /\ (emitted # << >> /\ emitted[1].type = "clearError")
            => state' = state]_vars

\* C15 witness: clearError has been applied to a busy state that held an
\* error and a selection.
C15_Witness ==
  /\ emitted = << [type |-> "clearError"] >>
  /\ state.error = None
  /\ state.loading
  /\ ~IsNull(state.selectedAccount)
  /\ state.accounts # << >>

\* C16: every account in the store's collection has overdraftLimit defined
\* if and only if its accountType is CURRENT.
C16_OverdraftIffCurrent ==
  \A i \in 1..Len(state.accounts) :
    ~IsNull(state.accounts[i].overdraftLimit)
      <=> state.accounts[i].accountType = "CURRENT"

\* C16 witness: the collection holds a CURRENT account with its overdraft
\* limit and a SAVINGS account without one.
C16_Witness ==
  \E i, j \in 1..Len(state.accounts) :
    /\ state.accounts[i].accountType = "CURRENT"
    /\ ~IsNull(state.accounts[i].overdraftLimit)
    /\ state.accounts[j].accountType = "SAVINGS"
    /\ IsNull(state.accounts[j].overdraftLimit)

\* the last step handled a successful balance check
BalanceChecked ==
  /\ emitted # << >>
  /\ emitted[1].type = "checkBalanceSuccess"
  /\ ~IsNull(handled)
  /\ Val(handled).kind = "checkBalance"

\* the account the server returned to that check, and the check's result
CheckedAccount == Val(handled).res.body[1]

CheckedResponse == emitted[1].response

\* C17: the available balance reported by checkBalance, by getAvailableBalance
\* and by the derived views (selectAccountsWithStatus,
\* selectSelectedAccountWithInfo) is balance + overdraftLimit for a CURRENT
\* account and balance for a SAVINGS account.
C17_AvailableBalance ==
  LET expected(a) == IF a.accountType = "CURRENT"
                     THEN a.balance + Val(a.overdraftLimit)
                     ELSE a.balance
  IN /\ BalanceChecked =>
          CheckedResponse.availableBalance = expected(CheckedAccount)
     /\ \A i \in 1..Len(state.accounts) :
          /\ getAvailableBalance(state.accounts[i]) = expected(state.accounts[i])
          /\ selectAccountsWithStatus(state)[i].availableBalance
               = expected(state.accounts[i])
     /\ ~IsNull(state.selectedAccount) =>
          /\ getAvailableBalance(Val(state.selectedAccount))
               = expected(Val(state.selectedAccount))
          /\ Val(selectSelectedAccountWithInfo(state)).availableBalance
               = expected(Val(state.selectedAccount))

\* C17 witness: a balance check of a CURRENT account with a positive
\* overdraft limit has been answered while the collection holds both
\* accounts.
C17_Witness ==
  /\ BalanceChecked
  /\ CheckedAccount.accountType = "CURRENT"
  /\ Val(CheckedAccount.overdraftLimit) > 0
  /\ CheckedResponse.availableBalance > CheckedResponse.currentBalance
  /\ Len(state.accounts) = 2

\* the account of the scenario: CURRENT, balance 100, overdraft limit 10000
ScenarioChecked ==
  /\ BalanceChecked
  /\ CheckedAccount.accountType = "CURRENT"
  /\ CheckedAccount.balance = 100
  /\ CheckedAccount.overdraftLimit = Some(10000)

\* C18 (as stated): for a CURRENT account with balance 100 and overdraft
\* limit 10000 the balance check reports availableBalance 10100 and
\* isLowBalance false.
C18_ScenarioNotLow ==
  ScenarioChecked =>
    /\ CheckedResponse.availableBalance = 10100
    /\ CheckedResponse.isLowBalance = FALSE

\* C18 (amended): for a CURRENT account with balance 100 and overdraft limit
\* 10000 the balance check reports availableBalance 10100 and isLowBalance
\* true, the balance 100 being below the threshold 7000.
C18_ScenarioLow ==
  ScenarioChecked =>
    /\ CheckedResponse.availableBalance = 10100
    /\ CheckedResponse.isLowBalance = TRUE

\* C18 witness: the balance check of the scenario's account, id 2, has been
\* answered.
C18_Witness ==
  /\ ScenarioChecked
  /\ CheckedResponse.accountId = 2
  /\ CheckedResponse.currentBalance = 100

\* C19: isLowBalance, in the balance check and in the derived views, is true
\* exactly when balance < 2000 for a SAVINGS account and balance < 7000 for
\* a CURRENT account, whatever the available balance; the SAVINGS account
\* with balance 1500 is low.
C19_LowBalanceStrictlyBelowThreshold ==
  LET low(a) == IF a.accountType = "SAVINGS"
                THEN a.balance < 2000
                ELSE a.balance < 7000
  IN /\ BalanceChecked =>
          /\ CheckedResponse.isLowBalance = low(CheckedAccount)
          /\ (CheckedAccount.accountType = "SAVINGS"
                /\ CheckedAccount.balance = 1500)
               => CheckedResponse.isLowBalance
     /\ \A i \in 1..Len(state.accounts) :
          selectAccountsWithStatus(state)[i].isLowBalance = low(state.accounts[i])
     /\ ~IsNull(state.selectedAccount) =>
          Val(selectSelectedAccountWithInfo(state)).isLowBalance
            = low(Val(state.selectedAccount))

\* C19 witness: the balance check of a SAVINGS account whose balance equals
\* the threshold has been answered, and it is not low.
C19_Witness ==
  /\ BalanceChecked
  /\ CheckedAccount.accountType = "SAVINGS"
  /\ CheckedAccount.balance = 2000
  /\ ~CheckedResponse.isLowBalance

\* C20: a call of getAllAccounts makes at most two HTTP attempts, and its
\* error reaches the effect only after the second attempt has failed too (a
\* failed first attempt is always retried); every other gateway call,
\* createAccount and closeAccount among them, makes exactly one attempt,
\* whose failure is surfaced at once.
C20_OnlyListRetriesOnce ==
  \A k \in Kinds :
    ~Idle(k) =>
      /\ Slot(k).attempt \in (IF k = "loadAccounts" THEN {1, 2} ELSE {1})
      /\ (/\ k = "loadAccounts"
          /\ Slot(k).phase = "responded"
          /\ ~Val(Slot(k).res).ok) => Slot(k).attempt = 2

\* C20 witness: the second attempt of getAllAccounts has succeeded after the
\* first one failed, and the only attempt of createAccount has failed.
C20_Witness ==
  /\ ~Idle("loadAccounts")
  /\ Slot("loadAccounts").phase = "responded"
  /\ Slot("loadAccounts").attempt = 2
  /\ Val(Slot("loadAccounts").res).ok
  /\ ~Idle("createAccount")
  /\ Slot("createAccount").phase = "responded"
  /\ Slot("createAccount").attempt = 1
  /\ ~Val(Slot("createAccount").res).ok

\* the last step handled a failed HTTP response (not a client-side
\* ErrorEvent); its HttpErrorResponse and the message that was surfaced
TransportFailed ==
  /\ ~IsNull(handled)
  /\ ~Val(handled).res.ok
  /\ "err" \in DOMAIN Val(handled).res
  /\ IsNull(Val(handled).res.err.errorEvent)

FailedResponse == Val(handled).res.err

SurfacedMessage == emitted[1].error

\* C21: every transport failure is re-raised as exactly one error, whose
\* message is the one of the class of its status: each of the statuses 0,
\* 400, 401, 403, 404, 409, 422 and 500 has a message of its own, and only
\* the other statuses get the message of the unknown class
\* ("Server Error: <status> - <statusText>").
C21_EveryStatusItsOwnClass ==
  TransportFailed =>
    LET unknown == << "Server Error: ", FailedResponse.status, " - ",
                      FailedResponse.statusText >>
    IN /\ Len(emitted) = 1
       /\ emitted[1].type \in FailureTypes
       /\ SurfacedMessage = handleError(FailedResponse)
       /\ (SurfacedMessage = unknown)
            <=> FailedResponse.status
                  \notin {0, 400, 401, 403, 404, 409, 422, 500}

\* the last step handed the catchError of an effect the Error its gateway
\* call threw, and surfaced its message
ErrorCaught ==
  /\ ~IsNull(handled)
  /\ Val(handled).subscribed
  /\ ~Val(handled).res.ok

\* the Error the gateway's catchError(handleError) rethrew to the effect
CaughtError == ServicePipe(Val(handled).kind, Val(handled).res, now).error

\* C28: the display message of an error is error.error.message when
\* present, otherwise error.message when present, otherwise the literal
\* fallback; it is never empty.
C28_MessagePrecedence ==
  ErrorCaught =>
    /\ SurfacedMessage =
         IF ~IsNull(CaughtError.error)
              /\ NonEmpty(Val(CaughtError.error).message)
         THEN Val(Val(CaughtError.error).message)
         ELSE IF NonEmpty(CaughtError.message)
         THEN Val(CaughtError.message)
         ELSE << "An unexpected error occurred. Please try again." >>
    /\ SurfacedMessage # << >>

\* C28 witness: the effect of a balance check caught the Error of a
\* response of a status handleError has no branch for; the Error has no
\* structured message field, and its generic message was surfaced.
C28_Witness ==
  /\ ErrorCaught
  /\ Val(handled).kind = "checkBalance"
  /\ Val(handled).res.err.status = 503
  /\ IsNull(CaughtError.error)
  /\ SurfacedMessage = Val(CaughtError.message)
  /\ SurfacedMessage = << "Server Error: ", 503, " - ", "Service Unavailable" >>

\* What the handler that ran in the last step did, in the order of its
\* statements: the notifications it raised in its body and the actions
\* it returned, which the store applies when they are emitted.  The n-th
\* "notify" of the order is the n-th of toasts, the n-th "emit" the n-th
\* of emitted.
HandlerEvents ==
  IF IsNull(handled) THEN << >>
  ELSE LET order == Val(handled).order
           Rank(i) == Cardinality({j \in 1..i : order[j] = order[i]})
       IN [i \in 1..Len(order) |->
             IF order[i] = "notify"
             THEN [event |-> "notify", toast |-> toasts[Rank(i)]]
             ELSE [event |-> "emit", action |-> emitted[Rank(i)]]]

LowBalanceWarnings ==
  {i \in 1..Len(HandlerEvents) :
     /\ HandlerEvents[i].event = "notify"
     /\ HandlerEvents[i].toast.level = "warning"
     /\ HandlerEvents[i].toast.title = "Low Balance Alert"}

\* C22: a successful balance check whose response has isLowBalance = true
\* raises exactly one low-balance warning, before checkBalanceSuccess is
\* emitted and applied; one whose response has isLowBalance = false raises
\* none; and no other step raises a low-balance warning.
C22_LowBalanceWarnedOnceBeforeSuccess ==
  IF BalanceChecked /\ CheckedResponse.isLowBalance
  THEN /\ Cardinality(LowBalanceWarnings) = 1
       /\ \A i \in LowBalanceWarnings :
            \E j \in 1..Len(HandlerEvents) :
              /\ i < j
              /\ HandlerEvents[j].event = "emit"
              /\ HandlerEvents[j].action.type = "checkBalanceSuccess"
       /\ \A i \in 1..Len(state.accounts) :
            state.accounts[i].id = CheckedResponse.accountId =>
              state.accounts[i].balance = CheckedResponse.currentBalance
  ELSE LowBalanceWarnings = {}

\* C22 witness: a balance check of a low account has been answered, its
\* warning raised and its checkBalanceSuccess applied to the loaded
\* collection.
C22_Witness ==
  /\ BalanceChecked
  /\ CheckedResponse.isLowBalance
  /\ LowBalanceWarnings # {}
  /\ Len(state.accounts) = 2

\* C23: the effects schedule a navigation to the accounts list exactly once
\* in the step that emits createAccountSuccess, and in no other step: not
\* on createAccountFailure, not on the outcome of a load, a close or a
\* balance check.
C23_NavigationOnlyAfterCreateSuccess ==
  [][LET created == \E i \in 1..Len(emitted') :
                      emitted'[i].type = "createAccountSuccess"
     IN /\ created => navTimers' = navTimers + 1
        /\ ~created => navTimers' <= navTimers]_vars

\* C23 witness: createAccountSuccess has just been emitted and its
\* navigation is scheduled.
C23_Witness ==
  /\ emitted # << >>
  /\ emitted[1].type = "createAccountSuccess"
  /\ navTimers = 1

\* C24: loadAccounts sets loading to true; loadAccountsSuccess{accounts: A},
\* after it or from any other state, replaces the collection with A, sets
\* loading to false, error to null, initialized to true and lastUpdated to
\* a non-null time, and leaves selectedAccount and selectedAccountId as
\* they were.
C24_LoadAccountsReplacesCollection ==
  [][/\ Applied("loadAccounts") => state'.loading = TRUE
     /\ Applied("loadAccountsSuccess") =>
          /\ (emitted # << >> /\ emitted[1].type = "loadAccounts")
               => state.loading = TRUE
          /\ state'.accounts = emitted'[1].accounts
          /\ Len(state'.accounts) = Len(emitted'[1].accounts)
          /\ state'.loading = FALSE
          /\ state'.error = None
          /\ state'.initialized = TRUE
          /\ ~IsNull(state'.lastUpdated)
          /\ state'.selectedAccount = state.selectedAccount
          /\ state'.selectedAccountId = state.selectedAccountId]_vars

\* C24 witness: loadAccountsSuccess with one account has replaced the
\* collection of a store whose selection is an account that is not in it.
C24_Witness ==
  /\ emitted # << >>
  /\ emitted[1].type = "loadAccountsSuccess"
  /\ Len(state.accounts) = 1
  /\ state.initialized
  /\ ~state.loading
  /\ ~IsNull(state.selectedAccount)
  /\ Val(state.selectedAccount).id # state.accounts[1].id

\* C25: loadAccountSuccess{account} replaces in place every account of the
\* collection that has the account's id (same length, same positions) or,
\* when there is none, appends the account; it sets selectedAccount to the
\* account, selectedAccountId to its id, loading to false and error to
\* null; and a collection with unique ids stays one.
C25_LoadAccountUpserts ==
  [][Applied("loadAccountSuccess") =>
       LET account == emitted'[1].account
           unique(accs) == \A i, j \in 1..Len(accs) :
                             accs[i].id = accs[j].id => i = j
       IN /\ IF \E i \in 1..Len(state.accounts) :
                  state.accounts[i].id = account.id
             THEN /\ Len(state'.accounts) = Len(state.accounts)
                  /\ \A i \in 1..Len(state.accounts) :
                       state'.accounts[i] =
                         IF state.accounts[i].id = account.id
                         THEN account ELSE state.accounts[i]
             ELSE state'.accounts = state.accounts \o << account >>
          /\ state'.selectedAccount = Some(account)
          /\ state'.selectedAccountId = Some(account.id)
          /\ state'.loading = FALSE
          /\ state'.error = None
          /\ unique(state.accounts) => unique(state'.accounts)]_vars

\* C25 witness: loadAccountSuccess has replaced the first of two accounts
\* with different ids.
C25_Witness ==
  /\ emitted # << >>
  /\ emitted[1].type = "loadAccountSuccess"
  /\ Len(state.accounts) = 2
  /\ state.accounts[1] = emitted[1].account
  /\ state.accounts[2].id # emitted[1].account.id
  /\ state.selectedAccount = Some(emitted[1].account)

\* C26: selectAccount{accountId} with null sets selectedAccount and
\* selectedAccountId to null; with an id it sets selectedAccountId to the
\* id, matched or not, and selectedAccount to the first account of the
\* collection with that id, or to null when there is none; accounts,
\* loading, error, lastUpdated and initialized do not change.
C26_SelectChangesOnlySelection ==
  [][Applied("selectAccount") =>
       LET accountId == emitted'[1].accountId
           matches == IF IsNull(accountId) THEN {}
                      ELSE {i \in 1..Len(state.accounts) :
                              state.accounts[i].id = Val(accountId)}
       IN /\ state'.selectedAccountId = accountId
          /\ state'.selectedAccount =
               IF matches = {} THEN None
               ELSE Some(state.accounts[CHOOSE i \in matches :
                                          \A j \in matches : i <= j])
          /\ state'.accounts = state.accounts
          /\ state'.loading = state.loading
          /\ state'.error = state.error
          /\ state'.lastUpdated = state.lastUpdated
          /\ state'.initialized = state.initialized]_vars

\* C26 witness: an id that no account of a non-empty collection has was
\* selected.
C26_Witness ==
  /\ emitted # << >>
  /\ emitted[1].type = "selectAccount"
  /\ state.accounts # << >>
  /\ ~IsNull(state.selectedAccountId)
  /\ ~SomeId(state.accounts, Val(state.selectedAccountId))
  /\ IsNull(state.selectedAccount)

\* C27: each request action (loadAccounts, loadAccount, createAccount,
\* deleteAccount, checkBalance) sets loading to true and error to null and
\* leaves accounts, selectedAccount, selectedAccountId, lastUpdated and
\* initialized unchanged.
C27_RequestTouchesOnlyLoadingAndError ==
  [][\A ty \in RequestTypes :
       Applied(ty) =>
         /\ state'.loading = TRUE
         /\ state'.error = None
         /\ state'.accounts = state.accounts
         /\ state'.selectedAccount = state.selectedAccount
         /\ state'.selectedAccountId = state.selectedAccountId
         /\ state'.lastUpdated = state.lastUpdated
         /\ state'.initialized = state.initialized]_vars

\* C27 witness: createAccount was dispatched on a store that holds two
\* accounts and a selection.
C27_Witness ==
  /\ emitted # << >>
  /\ emitted[1].type = "createAccount"
  /\ state.loading
  /\ Len(state.accounts) = 2
  /\ ~IsNull(state.selectedAccount)

\* the createAccount calls whose POST has been issued: the one the effect
\* is subscribed to and the ones switchMap has unsubscribed from
CreateCalls ==
  (IF Idle("createAccount") THEN {} ELSE {Slot("createAccount").req})
    \cup {o.req : o \in {x \in orphans : x.kind = "createAccount"}}

\* C29: the account the gateway posts for createAccount is determined by
\* the requested type: SAVINGS gets minBalance 1000, interestRate 4.5 (45
\* tenths), monthlyServiceCharge 0 and no overdraftLimit; CURRENT gets
\* minBalance 5000, interestRate 0, monthlyServiceCharge 500 and
\* overdraftLimit 10000; status is ACTIVE and balance the initial deposit.
C29_PayloadDeterminedByType ==
  \A call \in CreateCalls :
    /\ call.body.accountType = call.request.accountType
    /\ call.body.status = "ACTIVE"
    /\ call.body.balance = call.request.initialDeposit
    /\ IF call.request.accountType = "SAVINGS"
       THEN /\ call.body.minBalance = 1000
            /\ call.body.interestRate = 45
            /\ call.body.monthlyServiceCharge = 0
            /\ IsNull(call.body.overdraftLimit)
       ELSE /\ call.body.minBalance = 5000
            /\ call.body.interestRate = 0
            /\ call.body.monthlyServiceCharge = 500
            /\ call.body.overdraftLimit = Some(10000)

\* C29 witness: a CURRENT account is being created while the POST of a
\* SAVINGS account, replaced by it, is still out.
C29_Witness ==
  /\ ~Idle("createAccount")
  /\ Slot("createAccount").req.request.accountType = "CURRENT"
  /\ \E call \in CreateCalls : call.request.accountType = "SAVINGS"

\* C30: the total balance is the sum of balance over the ACTIVE accounts of
\* the collection, the total available balance the sum over the ACTIVE
\* accounts of balance + overdraftLimit for CURRENT and balance for SAVINGS;
\* CLOSED and SUSPENDED accounts add nothing; and the helpers
\* calculateTotalBalance and calculateTotalAvailableBalance return what the
\* selectors return.
C30_TotalsOverActiveAccounts ==
  LET n == Len(state.accounts)
      active == {i \in 1..n : state.accounts[i].status = "ACTIVE"}
      available(a) == IF a.accountType = "CURRENT"
                      THEN a.balance + Val(a.overdraftLimit)
                      ELSE a.balance
      balances == [i \in 1..n |-> state.accounts[i].balance]
      availables == [i \in 1..n |-> available(state.accounts[i])]
  IN /\ selectTotalBalance(state) = SumOver(balances, active)
     /\ selectTotalAvailableBalance(state) = SumOver(availables, active)
     /\ calculateTotalBalance(state) = selectTotalBalance(state)
     /\ calculateTotalAvailableBalance(state)
          = selectTotalAvailableBalance(state)

\* C30 witness: the collection holds a SAVINGS account that is not ACTIVE
\* and an ACTIVE CURRENT account with an overdraft, and the totals count
\* the second one only.
C30_Witness ==
  /\ Len(state.accounts) = 2
  /\ state.accounts[1].status \in {"CLOSED", "SUSPENDED"}
  /\ state.accounts[1].balance > 0
  /\ state.accounts[2].status = "ACTIVE"
  /\ state.accounts[2].accountType = "CURRENT"
  /\ selectTotalBalance(state) = state.accounts[2].balance
  /\ selectTotalAvailableBalance(state) > selectTotalBalance(state)

\* C31: at every instant the staleness predicate, helper and selector
\* alike, is true exactly when lastUpdated is null or now - lastUpdated is
\* more than five minutes (five minutes exactly is not stale); it is true
\* in the initial state and false right after a Success action.
C31_StaleExactlyAfterFiveMinutes ==
  LET stale == IsNull(state.lastUpdated)
                 \/ now - Val(state.lastUpdated) > 5
  IN /\ needsRefresh(state, now) = stale
     /\ selectNeedsRefresh(state, now) = {stale}
     /\ state = initialAccountState => needsRefresh(state, now)
     /\ (emitted # << >> /\ emitted[1].type \in SuccessTypes)
          => ~needsRefresh(state, now)

\* C32: whenever selectedAccount is non-null, its id is selectedAccountId.
C32_SelectedAccountHasSelectedId ==
  ~IsNull(state.selectedAccount) =>
    state.selectedAccountId = Some(Val(state.selectedAccount).id)

\* C32 witness: an account of the loaded collection has been selected with
\* selectAccount.
C32_Witness ==
  /\ ~IsNull(state.selectedAccount)
  /\ requested["selectAccount"] = 1
  /\ requested["loadAccounts"] = 1
  /\ SomeId(state.accounts, Val(state.selectedAccount).id)

\* C33: if the collection contains an account with id selectedAccountId,
\* selectedAccount is non-null and equal to that account (and so is the
\* account selectSelectedAccountWithInfo extends).
C33_SelectedAccountNeverStale ==
  \A i \in 1..Len(state.accounts) :
    state.selectedAccountId = Some(state.accounts[i].id) =>
      /\ state.selectedAccount = Some(state.accounts[i])
      /\ selectSelectedAccountWithInfo(state) = Some(WithInfo(state.accounts[i]))

\* C34: the store is never both loading and in error: error non-null
\* implies loading = false.
C34_NeverLoadingAndInError ==
  selectHasError(state) => ~selectIsOperationInProgress(state)

\* C34 witness: the store shows the error of a failed request while a
\* request of another kind, dispatched before the failure, is still out.
C34_Witness ==
  /\ selectHasError(state)
  /\ ~state.loading
  /\ \E k \in Kinds : ~Idle(k)

\* C36: whenever a request whose outcome the store will still apply is in
\* flight, loading is true and the data-ready view is false.
C36_LoadingWhileInFlight ==
  (\E k \in Kinds : ~Idle(k)) =>
    /\ state.loading
    /\ ~selectIsDataReady(state)

\* C37: initialized, once true, stays true; lastUpdated, once non-null,
\* stays non-null; and initialized implies lastUpdated non-null.
C37_SyncFieldsMonotonic ==
  [][/\ state.initialized => state'.initialized
     /\ ~IsNull(state.lastUpdated) => ~IsNull(state'.lastUpdated)
     /\ state'.initialized => ~IsNull(state'.lastUpdated)]_vars

\* C37 witness: a Failure action has been applied to a store that was
\* initialized by an earlier load.
C37_Witness ==
  /\ state.initialized
  /\ ~IsNull(state.lastUpdated)
  /\ emitted # << >>
  /\ emitted[1].type \in FailureTypes

\* C35: when every HTTP request is eventually answered and the user stops
\* dispatching, loading is eventually false and false from then on,
\* whatever requests were dropped, replaced or failed on the way.
C35_LoadingEventuallySettles == <>[](~state.loading)

\* C35 witness: the store is at rest and not loading after two createAccount
\* requests, the first of which switchMap replaced.
C35_Witness ==
  /\ Quiescent
  /\ ~state.loading
  /\ requested["createAccount"] = 2
  /\ answered["createAccount"] = {2}

\* C38: for every account of the collection, whatever its status, the
\* isLowBalance flag of selectAccountsWithStatus is true exactly when the
\* account is in selectLowBalanceAccounts (and in getLowBalanceAccounts)
\* and exactly when hasLowBalance is true of it; the flag of
\* selectSelectedAccountWithInfo agrees with hasLowBalance of the selected
\* account.
C38_LowBalanceViewsAgree ==
  /\ \A i \in 1..Len(state.accounts) :
       LET account == state.accounts[i]
           flag == selectAccountsWithStatus(state)[i].isLowBalance
           in(accs) == \E j \in 1..Len(accs) : accs[j] = account
       IN /\ flag <=> in(selectLowBalanceAccounts(state))
          /\ flag <=> in(getLowBalanceAccounts(state))
          /\ flag <=> hasLowBalance(account)
  /\ ~IsNull(state.selectedAccount) =>
       (Val(selectSelectedAccountWithInfo(state)).isLowBalance
          <=> hasLowBalance(Val(state.selectedAccount)))


\* the URLs of the banking pages
BankingUrls ==
  {<< "banking", "accounts" >>, << "banking", "create-account" >>}
    \cup {<< "banking", "account", IdSegment(id) >> : id \in 1..MaxId}

\* the component the banking route table names for a banking URL
BankingComponent(url) ==
  IF url = << "banking", "accounts" >> THEN "AccountListComponent"
  ELSE IF url = << "banking", "create-account" >>
    THEN "AccountCreateComponent"
  ELSE "AccountDetailsComponent"

\* C39: whenever the Router has resolved /banking/accounts (where the timer
\* of createAccountSuccess$ navigates), /banking/create-account or
\* /banking/account/:id, the wildcard route is the last entry of the route
\* table it resolved with and the route activated is the banking component
\* of that URL, never the 404 StatusComponent
C39_BankingUrlsReachBankingComponents ==
  ~IsNull(router) =>
    LET table == RouteTable(Val(router).table)
    IN Val(router).url \in BankingUrls =>
         /\ WildcardPosition(table) = Len(table)
         /\ Val(router).component = BankingComponent(Val(router).url)
         /\ Val(router).component # "StatusComponent"

====
